---- MODULE Spec2Model ----
(***************************************************************************)
(* Photo-booth strip compositor: the export render of PhotoCanvas          *)
(* (drawStripToCanvas), its interactive preview (createPhotoStrip and      *)
(* getImageStyle), the FilterPanel handlers and the ImageProcessor         *)
(* canvas operations.                                                      *)
(***************************************************************************)
EXTENDS Integers, Sequences, FiniteSets, TLC

VARIABLES
    photo,          \* PhotoCanvas prop `photo`: [isArray, list]
    selectedLayout, \* PhotoCanvas prop `selectedLayout` (a FrameLayout or NoLayout)
    stickers,       \* PhotoCanvas prop `stickers`
    appliedFilters, \* AppliedFilters: [basic, advanced]
    stripColor,     \* PhotoCanvas state `stripColor`
    clock,          \* the wall clock read by new Date(), in seconds
    pc,             \* position of the running drawStripToCanvas call
    snap,           \* the props and state the running call closed over
    idx,            \* loop index of the running call
    loadLog,        \* the image loads the running call has awaited, in order
    canvas,         \* the export canvas: size, background and draw operations
    lastFile,       \* the file the last Download click produced
    ipOp,           \* ImageProcessor: the operation running
    ipInput,        \* ImageProcessor: its argument list (stickers or photo sources)
    ipPending,      \* ImageProcessor: positions whose image has not loaded yet
    ipLoaded,       \* ImageProcessor: loadedStickers / loadedPhotos counter
    ipDrawn,        \* ImageProcessor: draw operations on its canvas, in order
    ipResult,       \* ImageProcessor: state of the returned promise
    multiShotCount, \* CameraPreview prop `multiShotCount`
    currentCountdownDuration, \* CameraPreview state, seconds
    countdown,      \* CameraPreview state `countdown` (CountdownNull or a number)
    effectFor,      \* the `countdown` value the countdown effect last ran for
    isCapturingSession, \* CameraPreview state
    showGallery,    \* CameraPreview state
    capError,       \* CameraPreview state `error`
    capturedPhotos, \* CameraPreview state `capturedPhotos`
    capPc,          \* position of the running startContinuousCapture call
    capI,           \* its loop variable i
    capNow,         \* time since mount, in half seconds
    capTimers,      \* pending setTimeout timers
    capLog,         \* countdown starts and captures of the session, in order
    capSessions,    \* capture sessions started so far
    lastAdded,      \* StickerPanel: id of the sticker the last handler added
    dbUsers,        \* store: the User table
    dbPhotos,       \* store: the Photo table, in creation order
    lastResponse,   \* store: the last request handled and its response
    savePc,         \* position of the running Save to Gallery handler
    saveStatus,     \* PhotoCanvas state `saveStatus`
    saveDisabled,   \* PhotoCanvas state `saveDisabled`
    saveRequests,   \* POST requests the running Save handler has sent
    saveOutcome,    \* what became of the request of the last Save click
    galleryPhotos,  \* the photos handed to the addPhoto prop, in order
    saveFlight,     \* the Save handlers that have not returned yet, oldest first
    selectedSticker,\* PhotoCanvas state `selectedSticker`
    isDragging,     \* PhotoCanvas state `isDragging`
    dragOffset,     \* PhotoCanvas state `dragOffset`
    lastUpdate,     \* the argument of the last onPhotoUpdate call
    dragStart,      \* pointer and sticker position at the last mouse-down
    lastEvent,      \* the last sticker event handled
    currentPhoto,   \* HomePage state `currentPhoto`
    sessionPhotos,  \* usePhotos state `photos`
    lastExport,     \* the image the last download or share used
    viewMode,       \* HomePage state `viewMode`
    idbStored,      \* IndexedDB: the value under the session's storage key
    idbQueue,       \* IndexedDB requests of usePhotos in flight, oldest first
    loadDone,       \* the get of the load effect has completed
    addedIds,       \* ids of the photos handed to addPhoto
    removedIds,     \* ids removed by deletePhoto or clearSession
    duration,       \* useCountdown option `duration`, seconds
    remaining,      \* useCountdown state `remaining`
    isActive,       \* useCountdown state `isActive`
    intervalRef,    \* useCountdown `intervalRef.current` (NoInterval or an interval id)
    cdIntervals,    \* ids of the intervals set and not cleared
    cdStarts,       \* start() calls so far
    cdCompletions,  \* onComplete calls so far
    cdStopped       \* stop() was called and start() has not been called since

vars == <<photo, selectedLayout, stickers, appliedFilters, stripColor, clock,
          pc, snap, idx, loadLog, canvas, lastFile,
          ipOp, ipInput, ipPending, ipLoaded, ipDrawn, ipResult,
          multiShotCount, currentCountdownDuration, countdown, effectFor,
          isCapturingSession, showGallery, capError, capturedPhotos,
          capPc, capI, capNow, capTimers, capLog, capSessions,
          lastAdded, dbUsers, dbPhotos, lastResponse,
          savePc, saveStatus, saveDisabled, saveRequests, saveOutcome, galleryPhotos,
          saveFlight,
          selectedSticker, isDragging, dragOffset, lastUpdate, dragStart, lastEvent,
          currentPhoto, sessionPhotos, lastExport, viewMode,
          idbStored, idbQueue, loadDone, addedIds, removedIds,
          duration, remaining, isActive, intervalRef, cdIntervals, cdStarts,
          cdCompletions, cdStopped>>

propVars == <<photo, selectedLayout, stickers>>
renderVars == <<pc, snap, idx, loadLog, canvas>>
ipVars == <<ipOp, ipInput, ipPending, ipLoaded, ipDrawn, ipResult>>
captureVars == <<multiShotCount, currentCountdownDuration, countdown, effectFor,
                 isCapturingSession, showGallery, capError, capturedPhotos,
                 capPc, capI, capNow, capTimers, capLog, capSessions>>
panelVars == <<lastAdded>>
storeVars == <<dbUsers, dbPhotos, lastResponse>>
saveVars == <<savePc, saveStatus, saveDisabled, saveRequests, saveOutcome, galleryPhotos,
              saveFlight>>
editVars == <<selectedSticker, isDragging, dragOffset, lastUpdate, dragStart, lastEvent>>
homeVars == <<currentPhoto, sessionPhotos, lastExport, viewMode>>
photosVars == <<idbStored, idbQueue, loadDone, addedIds, removedIds>>
countdownVars == <<duration, remaining, isActive, intervalRef, cdIntervals, cdStarts,
                   cdCompletions, cdStopped>>
\* the components other than the export render, FilterPanel and ImageProcessor
appVars == <<captureVars, panelVars, storeVars, saveVars, editVars, homeVars, photosVars, countdownVars>>
\* the export render, FilterPanel and ImageProcessor
editorVars == <<propVars, appliedFilters, stripColor, clock, renderVars, lastFile, ipVars>>
\* everything outside CameraPreview
outsideCapture == <<editorVars, panelVars, storeVars, saveVars, editVars, homeVars, photosVars, countdownVars>>
\* everything StickerPanel and the HomePage sticker handlers leave alone
outsidePanel == <<photo, selectedLayout, appliedFilters, stripColor, renderVars, lastFile,
                  ipVars, captureVars, storeVars, saveVars, editVars, homeVars, photosVars, countdownVars>>
\* everything outside the photo store
outsideStore == <<editorVars, captureVars, panelVars, saveVars, editVars, homeVars, photosVars, countdownVars>>
\* everything outside the Save to Gallery handler
outsideSave == <<editorVars, captureVars, panelVars, storeVars, editVars, homeVars, photosVars, countdownVars>>
\* everything the sticker event handlers of PhotoCanvas leave alone
outsideEdit == <<editorVars, captureVars, panelVars, storeVars, saveVars, homeVars, photosVars, countdownVars>>
\* everything the HomePage photo handlers leave alone
outsideHome == <<photo, selectedLayout, stripColor, clock, renderVars, lastFile, ipVars,
                 captureVars, panelVars, storeVars, saveVars, editVars, photosVars, countdownVars>>
\* everything outside the usePhotos hook
outsidePhotos == <<editorVars, captureVars, panelVars, storeVars, saveVars, editVars,
                   currentPhoto, lastExport, viewMode, countdownVars>>

----------------------------------------------------------------------------
(* Bounds of the model *)

MaxPhotos == 4        \* longest photo list supplied
MaxStickers == 3      \* longest sticker list supplied
MaxLoadFailures == 1  \* image loads that fail within one export render
MaxClock == 2         \* seconds the wall clock advances
MaxBasic == 2         \* basic filters toggled on at once
MaxAdvanced == 2      \* advanced filter entries stored at once

----------------------------------------------------------------------------
(* Exact rational arithmetic for the JavaScript number expressions *)

Rat(n, d) == [num |-> n, den |-> d]
RInt(n) == Rat(n, 1)
RSub(a, b) == Rat(a.num * b.den - b.num * a.den, a.den * b.den)
RAdd(a, b) == Rat(a.num * b.den + b.num * a.den, a.den * b.den)
RMul(a, b) == Rat(a.num * b.num, a.den * b.den)
RDiv(a, b) == Rat(a.num * b.den, a.den * b.num)
\* denominators stay positive for the positive divisors used here
REq(a, b) == a.num * b.den = b.num * a.den
RLeq(a, b) == a.num * b.den <= b.num * a.den
RGt(a, b) == a.num * b.den > b.num * a.den

\* Math.round(n / d) for n >= 0, d > 0
Round(n, d) == (2 * n + d) \div (2 * d)

----------------------------------------------------------------------------
(* Configuration data *)

NoLayout == [id |-> "undefined", photoCount |-> 0, layout |-> "undefined"]

FRAME_LAYOUTS ==
    { [id |-> "layout-1", photoCount |-> 3, layout |-> "vertical"],
      [id |-> "layout-2", photoCount |-> 1, layout |-> "vertical"],
      [id |-> "layout-3", photoCount |-> 4, layout |-> "vertical"],
      [id |-> "layout-4", photoCount |-> 4, layout |-> "grid"],
      [id |-> "layout-5", photoCount |-> 4, layout |-> "horizontal"] }

BASIC_FILTERS ==
    << "none", "grayscale", "sepia", "invert", "blur",
       "brightness", "contrast", "saturate", "hue-rotate" >>

ADVANCED_FILTERS ==
    << [name |-> "brightness", min |-> 0, max |-> 300, defaultValue |-> 100, unit |-> "%"],
       [name |-> "contrast",   min |-> 0, max |-> 300, defaultValue |-> 100, unit |-> "%"],
       [name |-> "saturate",   min |-> 0, max |-> 300, defaultValue |-> 100, unit |-> "%"],
       [name |-> "blur",       min |-> 0, max |-> 10,  defaultValue |-> 0,   unit |-> "px"],
       [name |-> "hue-rotate", min |-> 0, max |-> 360, defaultValue |-> 0,   unit |-> "deg"],
       [name |-> "opacity",    min |-> 0, max |-> 100, defaultValue |-> 100, unit |-> "%"] >>

Range(s) == { s[k] : k \in DOMAIN s }

AdvancedNames == { f.name : f \in Range(ADVANCED_FILTERS) }

AdvancedFilter(name) == CHOOSE f \in Range(ADVANCED_FILTERS) : f.name = name

StripColors == { "#ffffff", "#000000" }

----------------------------------------------------------------------------
(* Photos, decoded images and stickers supplied to the component *)

PhotoIds == << "p1", "p2", "p3", "p4" >>

Photo(k) ==
    [id |-> PhotoIds[k],
     originalSrc |-> << "data:p1", "data:p2", "data:p3", "data:p4" >>[k]]

\* natural size of the image a source decodes to
ImageSize(src) ==
    CASE src = "data:p1" -> [width |-> 1920, height |-> 1080]
      [] src = "data:p2" -> [width |-> 1280, height |-> 960]
      [] src = "data:p3" -> [width |-> 600,  height |-> 400]
      [] OTHER           -> [width |-> 480,  height |-> 640]

\* the list <<Photo(k), Photo(k+1), ...>> of n photos, wrapping round
PhotoList(k, n) ==
    [j \in 1..n |-> Photo(((k + j - 2) % Len(PhotoIds)) + 1)]

PhotoInputs ==
    { [isArray |-> TRUE, list |-> PhotoList(k, n)] :
        k \in 1..Len(PhotoIds), n \in 1..MaxPhotos }
    \cup { [isArray |-> TRUE, list |-> << >>] }
    \cup { [isArray |-> FALSE, list |-> << Photo(k) >>] : k \in {1, 4} }

StickerIds == { "emoji-1", "emoji-2", "text-1" }

\* a sticker as StickerPanel creates it, its layer then set in the editor
Sticker(id) ==
    [id |-> id,
     src |-> CASE id = "emoji-1" -> "/stickers/emoji-1.png"
               [] id = "emoji-2" -> "/stickers/emoji-2.png"
               [] OTHER          -> "/stickers/text-1.png",
     x |-> 100, y |-> 100, width |-> 60, height |-> 60, rotation |-> 0,
     zIndex |-> CASE id = "emoji-1" -> 1
                  [] id = "emoji-2" -> 2
                  [] OTHER          -> 3]

InjectiveSeqs(S, n) ==
    UNION { { s \in [1..m -> S] : \A a, b \in 1..m : a # b => s[a] # s[b] } : m \in 0..n }

StickerInputs ==
    { [j \in DOMAIN s |-> Sticker(s[j])] : s \in InjectiveSeqs(StickerIds, MaxStickers) }

NoFilters == [basic |-> << >>, advanced |-> << >>]

FilterInputs ==
    { NoFilters,
      [basic |-> << "sepia", "grayscale" >>, advanced |-> << >>],
      [basic |-> << >>, advanced |-> << [name |-> "blur", value |-> 5] >>] }

----------------------------------------------------------------------------
(* Filter description of the preview: getImageStyle *)

FilterToken(fn, num, den, unit) == [fn |-> fn, num |-> num, den |-> den, unit |-> unit]

\* the CSS function one basic filter name contributes (none for unknown names)
BasicFilterStyle(basicFilter) ==
    CASE basicFilter = "grayscale"  -> << FilterToken("grayscale", 100, 1, "%") >>
      [] basicFilter = "sepia"      -> << FilterToken("sepia", 100, 1, "%") >>
      [] basicFilter = "blur"       -> << FilterToken("blur", 2, 1, "px") >>
      [] basicFilter = "brightness" -> << FilterToken("brightness", 12, 10, "") >>
      [] basicFilter = "contrast"   -> << FilterToken("contrast", 12, 10, "") >>
      [] basicFilter = "saturate"   -> << FilterToken("saturate", 15, 10, "") >>
      [] basicFilter = "hue-rotate" -> << FilterToken("hue-rotate", 90, 1, "deg") >>
      [] basicFilter = "invert"     -> << FilterToken("invert", 100, 1, "%") >>
      [] OTHER                      -> << >>

\* the CSS function one advanced entry contributes
AdvancedFilterStyle(entry) ==
    CASE entry.name = "brightness" -> << FilterToken("brightness", entry.value, 1, "%") >>
      [] entry.name = "contrast"   -> << FilterToken("contrast", entry.value, 1, "%") >>
      [] entry.name = "saturate"   -> << FilterToken("saturate", entry.value, 1, "%") >>
      [] entry.name = "blur"       -> << FilterToken("blur", entry.value, 1, "px") >>
      [] OTHER                     -> << >>

RECURSIVE ConcatMap(_, _)
\* forEach over a list, appending what each element contributes; Op is 1 or 2
ConcatMap(list, which) ==
    IF list = << >> THEN << >>
    ELSE (IF which = 1 THEN BasicFilterStyle(Head(list))
                       ELSE AdvancedFilterStyle(Head(list)))
         \o ConcatMap(Tail(list), which)

\* the `filter` style of every preview image; the empty list is 'none'
getImageStyle(filters) ==
    ConcatMap(filters.basic, 1) \o ConcatMap(filters.advanced, 2)

\* ctx.filter of the export canvas: never assigned, so the context default 'none'
CtxFilter == << >>

----------------------------------------------------------------------------
(* Slot filling: which source a slot shows *)

Truthy(src) == src # ""

\* photo[i]?.originalSrc of a JavaScript array (i counts from 0)
SrcAt(list, i) == IF i + 1 \in DOMAIN list THEN list[i + 1].originalSrc ELSE ""

Or3(a, b, c) == IF Truthy(a) THEN a ELSE IF Truthy(b) THEN b ELSE c

\* const photos = Array.isArray(photo) ? photo : [photo]
Photos(p) == p.list

\* primaryPhoto?.originalSrc
PrimarySrc(p) == SrcAt(Photos(p), 0)

PhotoCountOf(layout) == IF layout.photoCount # 0 THEN layout.photoCount ELSE 3

LayoutOf(layout) == IF layout = NoLayout THEN "vertical" ELSE layout.layout

\* drawStripToCanvas: photoSrc of slot i
ExportSlotSrcPrimaryOnly(p, i) == PrimarySrc(p)

ExportSlotSrc(p, i) ==
    IF p.isArray
    THEN Or3(SrcAt(p.list, i), SrcAt(p.list, 0), PrimarySrc(p))
    ELSE PrimarySrc(p)

\* createPhotoStrip (preview): src of the <img> of slot `index`
PreviewSlotSrc(p, layout, index) ==
    IF PhotoCountOf(layout) = 1
    THEN PrimarySrc(p)
    ELSE Or3(SrcAt(Photos(p), index), SrcAt(Photos(p), 0), PrimarySrc(p))

\* the component renders the strip and its buttons only with a primary photo
StripRendered(p) == Truthy(PrimarySrc(p))

----------------------------------------------------------------------------
(* Export render: drawStripToCanvas *)

\* canvasWidth, canvasHeight of the export canvas
CanvasSize(layout, photoCount) ==
    IF photoCount = 1 THEN [width |-> 200, height |-> 100]
    ELSE IF layout = "horizontal" THEN [width |-> 420, height |-> 200]
    ELSE IF layout = "grid" THEN [width |-> 320, height |-> 320]
    ELSE [width |-> 480,
          height |-> 40 + (Round(420 * 9, 13) * photoCount) + (photoCount - 1) + 350]

\* fillStyle of the background fill
Background(layout, color) ==
    IF layout = "grid" THEN "#f8f9fa"
    ELSE IF layout = "horizontal" THEN "gradient(#ffffff,#f8f9fa)"
    ELSE IF layout = "vertical" THEN color
    ELSE "#ffffff"

\* the vertical layout's centred crop window of an image of the given size
CropWindowFlush(imgWidth, imgHeight) ==
    LET targetAspect == Rat(3, 2)
        imgAspect == Rat(imgWidth, imgHeight)
    IN  IF RGt(imgAspect, targetAspect)
        THEN LET sWidth == RMul(RInt(imgHeight), targetAspect)
             IN  [sx |-> RSub(RInt(imgWidth), sWidth), sy |-> RInt(0),
                  sWidth |-> sWidth, sHeight |-> RInt(imgHeight)]
        ELSE LET sHeight == RDiv(RInt(imgWidth), targetAspect)
             IN  [sx |-> RInt(0), sy |-> RSub(RInt(imgHeight), sHeight),
                  sWidth |-> RInt(imgWidth), sHeight |-> sHeight]

CropWindow(imgWidth, imgHeight) ==
    LET targetAspect == Rat(3, 2)
        imgAspect == Rat(imgWidth, imgHeight)
    IN  IF RGt(imgAspect, targetAspect)
        THEN LET sWidth == RMul(RInt(imgHeight), targetAspect)
             IN  [sx |-> RDiv(RSub(RInt(imgWidth), sWidth), RInt(2)), sy |-> RInt(0),
                  sWidth |-> sWidth, sHeight |-> RInt(imgHeight)]
        ELSE LET sHeight == RDiv(RInt(imgWidth), targetAspect)
             IN  [sx |-> RInt(0), sy |-> RDiv(RSub(RInt(imgHeight), sHeight), RInt(2)),
                  sWidth |-> RInt(imgWidth), sHeight |-> sHeight]

\* drawImage(img, x, y, width, height) takes the whole image
WholeImage(img) ==
    [sx |-> RInt(0), sy |-> RInt(0), sWidth |-> RInt(img.width), sHeight |-> RInt(img.height)]

PhotoOp(i, src, crop, x, y, width, height) ==
    [kind |-> "photo", slot |-> i, src |-> src, crop |-> crop,
     x |-> x, y |-> y, width |-> width, height |-> height, filter |-> CtxFilter]

\* the draw operations of slot i once its image has loaded
SlotDraw(layout, photoCount, i, src, canvasWidth, canvasHeight) ==
    LET img == ImageSize(src)
    IN  IF layout = "vertical"
        THEN LET boxWidth == 420
                 boxHeight == Round(boxWidth * 2, 3)
                 spacing == 17
                 topMargin == 40
             IN  << PhotoOp(i, src, CropWindow(img.width, img.height),
                            RDiv(RInt(canvasWidth - boxWidth), RInt(2)),
                            RInt(topMargin + i * (boxHeight + spacing)),
                            RInt(boxWidth), RInt(boxHeight)) >>
        ELSE IF layout = "grid"
        THEN LET col == i % 2
                 row == i \div 2
             IN  << PhotoOp(i, src, WholeImage(img),
                            RInt(16 + col * 160), RInt(16 + row * 160),
                            RInt(128), RInt(128)) >>
        ELSE IF layout = "horizontal"
        THEN LET photoWidth == RDiv(RInt(canvasWidth - 16), RInt(photoCount))
             IN  << PhotoOp(i, src, WholeImage(img),
                            RAdd(RInt(8), RMul(RInt(i), photoWidth)), RInt(8),
                            RSub(photoWidth, RInt(4)), RInt(canvasHeight - 40)) >>
        ELSE IF photoCount = 1
        THEN << PhotoOp(i, src, WholeImage(img),
                        RInt(12), RInt(12), RInt(canvasWidth - 24), RInt(400)) >>
        ELSE << >>

\* save, translate to the centre, rotate, drawImage centred, restore
StickerOp(sticker) ==
    [kind |-> "sticker", id |-> sticker.id, src |-> sticker.src, zIndex |-> sticker.zIndex,
     translateX |-> RAdd(RInt(sticker.x), Rat(sticker.width, 2)),
     translateY |-> RAdd(RInt(sticker.y), Rat(sticker.height, 2)),
     rotation |-> sticker.rotation,
     x |-> Rat(-sticker.width, 2), y |-> Rat(-sticker.height, 2),
     width |-> RInt(sticker.width), height |-> RInt(sticker.height)]

\* `Adelaide - ${date}, ${time}` of the clock reading
FooterText(now) == [prefix |-> "Adelaide - ", dateTime |-> now]

FooterOp(now, canvasWidth, canvasHeight) ==
    [kind |-> "text", text |-> FooterText(now),
     x |-> Rat(canvasWidth, 2), y |-> RInt(canvasHeight - 73)]

\* assigning canvas.width clears the bitmap and resets the context
ResetCanvasKeep(ops) == ops

ResetCanvas(ops) == << >>

\* the catch block of a failed load logs the error; the loop goes on
AfterLoadErrorAbort(next) == "rejected"

AfterLoadError(next) == next

Failures(log) == Cardinality({ k \in DOMAIN log : ~log[k].ok })

\* outcomes an image load may have within the failure budget
LoadOutcomes(log) == IF Failures(log) < MaxLoadFailures THEN BOOLEAN ELSE { TRUE }

NoSnap == [photo |-> [isArray |-> TRUE, list |-> << >>], selectedLayout |-> NoLayout,
           stickers |-> << >>, appliedFilters |-> NoFilters, stripColor |-> ""]

BlankCanvas == [width |-> 300, height |-> 150, background |-> "", ops |-> << >>]

NoFile == [inputs |-> NoSnap, loads |-> << >>, bitmap |-> BlankCanvas]

AfterSlots(s) == IF Len(s.stickers) > 0 THEN "stickers" ELSE "footer"

\* entry of drawStripToCanvas up to the first awaited load
DrawStripBegin ==
    /\ pc \in { "idle", "returned" }
    /\ StripRendered(photo)
    /\ LET photoCount == PhotoCountOf(selectedLayout)
           layout == LayoutOf(selectedLayout)
           size == CanvasSize(layout, photoCount)
       IN  canvas' = [width |-> size.width, height |-> size.height,
                      background |-> Background(layout, stripColor),
                      ops |-> ResetCanvas(canvas.ops)]
    /\ snap' = [photo |-> photo, selectedLayout |-> selectedLayout, stickers |-> stickers,
                appliedFilters |-> appliedFilters, stripColor |-> stripColor]
    /\ idx' = 0
    /\ loadLog' = << >>
    /\ pc' = "slots"
    /\ UNCHANGED <<appVars, propVars, appliedFilters, stripColor, clock, lastFile, ipVars>>

\* one iteration of the photo loop: resolve the source, await the load, draw
DrawStripSlot ==
    /\ pc = "slots"
    /\ LET photoCount == PhotoCountOf(snap.selectedLayout)
           layout == LayoutOf(snap.selectedLayout)
           photoSrc == ExportSlotSrc(snap.photo, idx)
           next == IF idx + 1 < photoCount THEN "slots" ELSE AfterSlots(snap)
       IN  /\ idx < photoCount
           /\ idx' = IF idx + 1 < photoCount THEN idx + 1 ELSE 0
           /\ IF ~Truthy(photoSrc)
              THEN /\ pc' = next
                   /\ UNCHANGED <<loadLog, canvas>>
              ELSE \E ok \in LoadOutcomes(loadLog) :
                      /\ loadLog' = Append(loadLog,
                            [kind |-> "photo", index |-> idx, src |-> photoSrc, ok |-> ok])
                      /\ IF ok
                         THEN /\ canvas' = [canvas EXCEPT !.ops = @ \o
                                    SlotDraw(layout, photoCount, idx, photoSrc,
                                             canvas.width, canvas.height)]
                              /\ pc' = next
                         ELSE /\ UNCHANGED canvas
                              /\ pc' = AfterLoadError(next)
    /\ UNCHANGED <<appVars, propVars, appliedFilters, stripColor, clock, snap, lastFile, ipVars>>

\* one iteration of the sticker loop, in the order of the stickers array
DrawStripSticker ==
    /\ pc = "stickers"
    /\ idx < Len(snap.stickers)
    /\ LET sticker == snap.stickers[idx + 1]
           next == IF idx + 1 < Len(snap.stickers) THEN "stickers" ELSE "footer"
       IN  /\ idx' = IF idx + 1 < Len(snap.stickers) THEN idx + 1 ELSE 0
           /\ \E ok \in LoadOutcomes(loadLog) :
                /\ loadLog' = Append(loadLog,
                      [kind |-> "sticker", index |-> idx, src |-> sticker.src, ok |-> ok])
                /\ IF ok
                   THEN /\ canvas' = [canvas EXCEPT !.ops = Append(@, StickerOp(sticker))]
                        /\ pc' = next
                   ELSE /\ UNCHANGED canvas
                        /\ pc' = AfterLoadError(next)
    /\ UNCHANGED <<appVars, propVars, appliedFilters, stripColor, clock, snap, lastFile, ipVars>>

\* the footer caption with the current date and time; the canvas is returned
DrawStripFooter ==
    /\ pc = "footer"
    /\ canvas' = [canvas EXCEPT !.ops =
                    Append(@, FooterOp(clock, canvas.width, canvas.height))]
    /\ pc' = "returned"
    /\ UNCHANGED <<appVars, propVars, appliedFilters, stripColor, clock, snap, idx, loadLog,
                   lastFile, ipVars>>

\* handleDownload after the render: the link takes canvas.toDataURL
DownloadLink ==
    /\ pc = "returned"
    /\ lastFile' = [inputs |-> snap, loads |-> loadLog, bitmap |-> canvas]
    /\ pc' = "idle"
    /\ UNCHANGED <<appVars, propVars, appliedFilters, stripColor, clock, snap, idx, loadLog,
                   canvas, ipVars>>

\* the colour buttons and the colour input: setStripColor (choosing the
\* current colour changes nothing)
SetStripColor(color) ==
    /\ stripColor # color
    /\ stripColor' = color
    /\ UNCHANGED <<appVars, propVars, appliedFilters, clock, renderVars, lastFile, ipVars>>

\* time passes
ClockTick ==
    /\ clock < MaxClock
    /\ clock' = clock + 1
    /\ UNCHANGED <<appVars, propVars, appliedFilters, stripColor, renderVars, lastFile, ipVars>>

RenderIdle ==
    /\ pc = "idle"
    /\ snap = NoSnap
    /\ idx = 0
    /\ loadLog = << >>
    /\ canvas = BlankCanvas
    /\ lastFile = NoFile

IPIdle ==
    /\ ipOp = "none"
    /\ ipInput = << >>
    /\ ipPending = {}
    /\ ipLoaded = 0
    /\ ipDrawn = << >>
    /\ ipResult = "none"

\* useState<number | null>(null): the value standing for null
CountdownNull == -1

\* CameraPreview mounted, no session started
CaptureIdle ==
    /\ multiShotCount = 1
    /\ currentCountdownDuration = 3
    /\ countdown = CountdownNull
    /\ effectFor = CountdownNull
    /\ isCapturingSession = FALSE
    /\ showGallery = FALSE
    /\ capError = "null"
    /\ capturedPhotos = << >>
    /\ capPc = "idle"
    /\ capI = 0
    /\ capNow = 0
    /\ capTimers = {}
    /\ capLog = << >>
    /\ capSessions = 0

\* the value standing for the null of a string state
Null == "null"

\* StickerPanel before any click; ids are <<sample id, Date.now()>>
NoSticker == << >>

PanelIdle == lastAdded = NoSticker

\* the users known to the store
Users == { [id |-> "u1", email |-> "ann@example.com"],
           [id |-> "u2", email |-> "bob@example.com"] }

NoRequest == [method |-> "none", email |-> Null, status |-> 0, records |-> << >>,
              before |-> << >>]

StoreIdle ==
    /\ dbUsers = Users
    /\ dbPhotos = << >>
    /\ lastResponse = NoRequest

\* a status line: fixed text and, for a failure, the reason appended to it
StatusLine(text, detail) == [text |-> text, detail |-> detail]

NoOutcome == [result |-> "none", galleryBefore |-> << >>]

SaveIdle ==
    /\ savePc = "idle"
    /\ saveStatus = StatusLine("", "")
    /\ saveDisabled = FALSE
    /\ saveRequests = 0
    /\ saveOutcome = NoOutcome
    /\ galleryPhotos = << >>
    /\ saveFlight = << >>

NoUpdate == [given |-> FALSE, stickers |-> << >>]

NoDrag == [pointer |-> [x |-> 0, y |-> 0], position |-> [x |-> 0, y |-> 0], sticker |-> Null]

\* an event: its type, its key (keydown) and its clientX, clientY (mousemove)
Event(type, key, pointer) == [type |-> type, key |-> key, pointer |-> pointer]

NoPointer == [x |-> 0, y |-> 0]

NoEvent == Event("none", "", NoPointer)

EditIdle ==
    /\ selectedSticker = Null
    /\ isDragging = FALSE
    /\ dragOffset = [x |-> 0, y |-> 0]
    /\ lastUpdate = NoUpdate
    /\ dragStart = NoDrag
    /\ lastEvent = NoEvent

\* an image: its data URL and, for the record, the filter description and
\* the sticker list it was rendered with
Bitmap(data, filters, list) == [data |-> data, renderedWith |-> filters, stickers |-> list]

NoBitmap == Bitmap("", NoFilters, << >>)

NoExport == [via |-> "none", imageSrc |-> NoBitmap, filtersApplied |-> NoFilters,
             stickers |-> << >>]

HomeIdle ==
    /\ currentPhoto = << >>
    /\ sessionPhotos = << >>
    /\ lastExport = NoExport
    /\ viewMode = "frame-selection"

\* nothing stored under the key (get resolves with undefined)
NoStored == [present |-> FALSE, list |-> << >>]

\* usePhotos not mounted
PhotosIdle ==
    /\ idbStored = NoStored
    /\ idbQueue = << >>
    /\ loadDone = FALSE
    /\ addedIds = {}
    /\ removedIds = {}

NoInterval == 0   \* intervalRef.current is null

\* useCountdown not mounted
CountdownIdle ==
    /\ duration = 0
    /\ remaining = 0
    /\ isActive = FALSE
    /\ intervalRef = NoInterval
    /\ cdIntervals = {}
    /\ cdStarts = 0
    /\ cdCompletions = 0
    /\ cdStopped = FALSE

AppIdle ==
    /\ PhotosIdle
    /\ CountdownIdle
    /\ CaptureIdle
    /\ PanelIdle
    /\ StoreIdle
    /\ SaveIdle
    /\ EditIdle
    /\ HomeIdle

\* PhotoCanvas mounted with any supplied photos, layout, stickers and filters
Init ==
    /\ photo \in PhotoInputs
    /\ selectedLayout \in FRAME_LAYOUTS \cup { NoLayout }
    /\ stickers \in StickerInputs
    /\ appliedFilters \in FilterInputs
    /\ stripColor = "#ffffff"
    /\ clock = 0
    /\ RenderIdle
    /\ IPIdle
    /\ AppIdle

Next ==
    \/ DrawStripBegin
    \/ DrawStripSlot
    \/ DrawStripSticker
    \/ DrawStripFooter

Spec == Init /\ [][Next]_vars

----------------------------------------------------------------------------
(* FilterPanel handlers *)

\* values the advanced change handler is called with
AdvancedValues == { -5, 0, 10, 15 }

\* { ...advanced, [filterName]: value }: an existing key keeps its place
PutAdvanced(advanced, filterName, value) ==
    IF \E k \in DOMAIN advanced : advanced[k].name = filterName
    THEN [k \in DOMAIN advanced |->
            IF advanced[k].name = filterName
            THEN [name |-> filterName, value |-> value]
            ELSE advanced[k]]
    ELSE Append(advanced, [name |-> filterName, value |-> value])

Includes(list, x) == \E k \in DOMAIN list : list[k] = x

Without(list, x) == SelectSeq(list, LAMBDA f : f # x)

\* a click on a basic filter button
handleBasicFilterToggle(filterName) ==
    /\ LET newBasicFilters ==
              IF Includes(appliedFilters.basic, filterName)
              THEN Without(appliedFilters.basic, filterName)
              ELSE Append(appliedFilters.basic, filterName)
       IN  /\ Len(newBasicFilters) <= MaxBasic
           /\ appliedFilters' = [appliedFilters EXCEPT !.basic = newBasicFilters]
    /\ UNCHANGED <<appVars, propVars, stripColor, clock, renderVars, lastFile, ipVars>>

\* a change of an advanced filter value
handleAdvancedFilterChange(filterName, value) ==
    /\ LET newAdvancedFilters == PutAdvanced(appliedFilters.advanced, filterName, value)
       IN  /\ Len(newAdvancedFilters) <= MaxAdvanced
           /\ appliedFilters' = [appliedFilters EXCEPT !.advanced = newAdvancedFilters]
    /\ UNCHANGED <<appVars, propVars, stripColor, clock, renderVars, lastFile, ipVars>>

\* the Reset button (a reset of unset filters changes nothing)
handleReset ==
    /\ appliedFilters # NoFilters
    /\ appliedFilters' = NoFilters
    /\ UNCHANGED <<appVars, propVars, stripColor, clock, renderVars, lastFile, ipVars>>

InitFilters ==
    /\ photo = [isArray |-> TRUE, list |-> PhotoList(1, 1)]
    /\ selectedLayout = NoLayout
    /\ stickers = << >>
    /\ appliedFilters = NoFilters
    /\ stripColor = "#ffffff"
    /\ clock = 0
    /\ RenderIdle
    /\ IPIdle
    /\ AppIdle

NextFilters ==
    \/ \E filterName \in Range(BASIC_FILTERS) : handleBasicFilterToggle(filterName)
    \/ \E filterName \in AdvancedNames, value \in AdvancedValues :
          handleAdvancedFilterChange(filterName, value)
    \/ handleReset

SpecFilters == InitFilters /\ [][NextFilters]_vars

----------------------------------------------------------------------------
(* ImageProcessor: addStickers and createPhotoStrip *)

RECURSIVE InsertByZ(_, _)
\* stable insertion of a sticker after every sticker whose zIndex is not larger
InsertByZ(sorted, sticker) ==
    IF sorted = << >> THEN << sticker >>
    ELSE IF Head(sorted).zIndex <= sticker.zIndex
         THEN << Head(sorted) >> \o InsertByZ(Tail(sorted), sticker)
         ELSE << sticker >> \o sorted

RECURSIVE SortByZ(_)
\* [...stickers].sort((a, b) => a.zIndex - b.zIndex), a stable sort
SortByZ(list) ==
    IF list = << >> THEN << >>
    ELSE InsertByZ(SortByZ(SubSeq(list, 1, Len(list) - 1)), list[Len(list)])

SrcInputs ==
    { [j \in 1..n |-> PhotoList(k, n)[j].originalSrc] : k \in { 1, 3 }, n \in 0..MaxPhotos }

\* addStickers(imageSrc, stickers): the base image starts loading (calls on
\* the shared canvas are taken one at a time)
IPAddStickers(list) ==
    /\ ipResult # "pending"
    /\ ipOp' = "addStickers"
    /\ ipInput' = list
    /\ ipPending' = { 0 }
    /\ ipLoaded' = 0
    /\ ipDrawn' = << >>
    /\ ipResult' = "pending"
    /\ UNCHANGED <<appVars, propVars, appliedFilters, stripColor, clock, renderVars, lastFile>>

\* img.onload of addStickers: draw the base, sort, start every sticker load
IPBaseImageLoaded ==
    /\ ipOp = "addStickers"
    /\ 0 \in ipPending
    /\ LET sortedStickers == SortByZ(ipInput)
       IN  /\ ipDrawn' = << [kind |-> "image"] >>
           /\ ipPending' = DOMAIN sortedStickers
           /\ ipResult' = IF Len(sortedStickers) = 0 THEN "resolved" ELSE ipResult
    /\ UNCHANGED <<appVars, propVars, appliedFilters, stripColor, clock, renderVars, lastFile,
                   ipOp, ipInput, ipLoaded>>

\* stickerImg.onload of the k-th sorted sticker: draw it, count it
IPStickerLoaded(k) ==
    /\ ipOp = "addStickers"
    /\ k \in ipPending \ { 0 }
    /\ LET sortedStickers == SortByZ(ipInput)
       IN  /\ ipDrawn' = Append(ipDrawn, StickerOp(sortedStickers[k]))
           /\ ipLoaded' = ipLoaded + 1
           /\ ipResult' = IF ipLoaded + 1 = Len(sortedStickers) THEN "resolved" ELSE ipResult
    /\ ipPending' = ipPending \ { k }
    /\ UNCHANGED <<appVars, propVars, appliedFilters, stripColor, clock, renderVars, lastFile,
                   ipOp, ipInput>>

\* createPhotoStrip(photos): every photo starts loading
IPCreatePhotoStrip(photos) ==
    /\ ipResult # "pending"
    /\ ipOp' = "createPhotoStrip"
    /\ ipInput' = photos
    /\ ipPending' = DOMAIN photos
    /\ ipLoaded' = 0
    /\ ipDrawn' = << >>
    /\ ipResult' = "pending"
    /\ UNCHANGED <<appVars, propVars, appliedFilters, stripColor, clock, renderVars, lastFile>>

\* img.onload of the k-th photo: draw it in its column, count it
IPPhotoLoaded(k) ==
    /\ ipOp = "createPhotoStrip"
    /\ k \in ipPending
    /\ LET stripWidth == 800
           photoHeight == Rat(stripWidth, Len(ipInput))
           index == k - 1
       IN  ipDrawn' = Append(ipDrawn,
              [kind |-> "photo", slot |-> index, src |-> ipInput[k],
               x |-> RMul(Rat(stripWidth, Len(ipInput)), RInt(index)), y |-> RInt(0),
               width |-> Rat(stripWidth, Len(ipInput)), height |-> photoHeight])
    /\ ipLoaded' = ipLoaded + 1
    /\ ipResult' = IF ipLoaded + 1 = Len(ipInput) THEN "resolved" ELSE ipResult
    /\ ipPending' = ipPending \ { k }
    /\ UNCHANGED <<appVars, propVars, appliedFilters, stripColor, clock, renderVars, lastFile,
                   ipOp, ipInput>>

InitIP ==
    /\ photo = [isArray |-> TRUE, list |-> PhotoList(1, 1)]
    /\ selectedLayout = NoLayout
    /\ stickers = << >>
    /\ appliedFilters = NoFilters
    /\ stripColor = "#ffffff"
    /\ clock = 0
    /\ RenderIdle
    /\ IPIdle
    /\ AppIdle

NextIP ==
    \/ \E list \in StickerInputs : IPAddStickers(list)
    \/ IPBaseImageLoaded
    \/ \E k \in 1..MaxStickers : IPStickerLoaded(k)
    \/ \E photos \in SrcInputs : IPCreatePhotoStrip(photos)
    \/ \E k \in 1..MaxPhotos : IPPhotoLoaded(k)

SpecIP == InitIP /\ [][NextIP]_vars

----------------------------------------------------------------------------
(* Two downloads of the same composition *)

InitTwice ==
    /\ photo = [isArray |-> TRUE, list |-> PhotoList(1, 2)]
    /\ selectedLayout \in { l \in FRAME_LAYOUTS : l.id \in { "layout-1", "layout-5" } }
    /\ stickers = << Sticker("emoji-1") >>
    /\ appliedFilters = NoFilters
    /\ stripColor = "#ffffff"
    /\ clock = 0
    /\ RenderIdle
    /\ IPIdle
    /\ AppIdle

NextTwice ==
    \/ DrawStripBegin
    \/ DrawStripSlot
    \/ DrawStripSticker
    \/ DrawStripFooter
    \/ DownloadLink
    \/ \E color \in StripColors : SetStripColor(color)
    \/ ClockTick

SpecTwice == InitTwice /\ [][NextTwice]_vars

----------------------------------------------------------------------------
(* Properties of the export render *)

PhotoOps(ops) == { k \in DOMAIN ops : ops[k].kind = "photo" }
StickerOps(ops) == { k \in DOMAIN ops : ops[k].kind = "sticker" }
PhotoLoads(log) == { k \in DOMAIN log : log[k].kind = "photo" }
StickerLoads(log) == { k \in DOMAIN log : log[k].kind = "sticker" }

\* photo i's bitmap when photo i exists, photo 0's otherwise
FillerPolicySrc(list, i) ==
    IF i < Len(list) THEN list[i + 1].originalSrc ELSE list[1].originalSrc

\* C1: every slot the export render loads and draws takes photo i's bitmap
\* when photo i exists and photo 0's otherwise, and the preview shows the
\* same source in that slot.
SlotSourceAgreement ==
    /\ \A k \in PhotoLoads(loadLog) :
          /\ loadLog[k].src = FillerPolicySrc(snap.photo.list, loadLog[k].index)
          /\ loadLog[k].src =
                PreviewSlotSrc(snap.photo, snap.selectedLayout, loadLog[k].index)
    /\ \A k \in PhotoOps(canvas.ops) :
          /\ canvas.ops[k].src = FillerPolicySrc(snap.photo.list, canvas.ops[k].slot)
          /\ canvas.ops[k].src =
                PreviewSlotSrc(snap.photo, snap.selectedLayout, canvas.ops[k].slot)

\* a finished render that drew a photo of its own in slot 1 and the filler in a later slot
SlotSourceWitness ==
    /\ pc = "returned"
    /\ Len(snap.photo.list) >= 2
    /\ \E a, b \in PhotoOps(canvas.ops) :
          /\ canvas.ops[a].slot = 1
          /\ canvas.ops[a].src = snap.photo.list[2].originalSrc
          /\ canvas.ops[b].slot >= Len(snap.photo.list)
          /\ canvas.ops[b].src = snap.photo.list[1].originalSrc

\* C2: every photo of the export bitmap is drawn through the filter
\* description the preview uses for the applied filter set.
ExportUsesPreviewFilters ==
    \A k \in PhotoOps(canvas.ops) :
        canvas.ops[k].filter = getImageStyle(snap.appliedFilters)

\* C3: the export render draws the stickers in ascending z-index order.
StickersDrawnInZOrder ==
    pc = "returned" =>
        \A a, b \in StickerOps(canvas.ops) :
            a < b => canvas.ops[a].zIndex <= canvas.ops[b].zIndex

\* C5: a failed image load skips only that slot or sticker: the render never
\* aborts, and the returned bitmap holds every slot and sticker whose image
\* loaded, none whose image failed, and the footer caption last.
LoadFailureSkipsOnlyThatImage ==
    /\ pc # "rejected"
    /\ pc = "returned" =>
          /\ \A i \in 0..(PhotoCountOf(snap.selectedLayout) - 1) :
                \E k \in PhotoLoads(loadLog) :
                    /\ loadLog[k].index = i
                    /\ loadLog[k].ok <=>
                          \E o \in PhotoOps(canvas.ops) : canvas.ops[o].slot = i
          /\ \A j \in DOMAIN snap.stickers :
                \E k \in StickerLoads(loadLog) :
                    /\ loadLog[k].index = j - 1
                    /\ loadLog[k].ok <=>
                          \E o \in StickerOps(canvas.ops) :
                              canvas.ops[o].id = snap.stickers[j].id
          /\ Len(canvas.ops) = Len(loadLog) - Failures(loadLog) + 1
          /\ canvas.ops[Len(canvas.ops)].kind = "text"

\* a finished render with one failed load, and a photo and a sticker drawn
LoadFailureWitness ==
    /\ pc = "returned"
    /\ Failures(loadLog) = 1
    /\ PhotoOps(canvas.ops) # {}
    /\ StickerOps(canvas.ops) # {}
    /\ canvas.ops[Len(canvas.ops)].kind = "text"

\* C7: in the vertical layout the crop window of every drawn slot has aspect
\* ratio 3:2, lies inside its own source image and is centred, trimming left
\* and right when the source is wider than 3:2 and top and bottom otherwise.
VerticalCropCentred ==
    LayoutOf(snap.selectedLayout) = "vertical" =>
        \A k \in PhotoOps(canvas.ops) :
            LET c == canvas.ops[k].crop
                img == ImageSize(canvas.ops[k].src)
                right == RSub(RInt(img.width), RAdd(c.sx, c.sWidth))
                bottom == RSub(RInt(img.height), RAdd(c.sy, c.sHeight))
            IN  /\ REq(RMul(c.sWidth, RInt(2)), RMul(c.sHeight, RInt(3)))
                /\ RLeq(RInt(0), c.sx) /\ RLeq(RInt(0), c.sy)
                /\ RLeq(RInt(0), right) /\ RLeq(RInt(0), bottom)
                /\ REq(c.sx, right) /\ REq(c.sy, bottom)
                /\ IF img.width * 2 > img.height * 3
                   THEN REq(c.sy, RInt(0)) /\ REq(c.sHeight, RInt(img.height))
                   ELSE REq(c.sx, RInt(0)) /\ REq(c.sWidth, RInt(img.width))

\* a vertical strip that cropped one source at the sides and another at top and bottom
VerticalCropWitness ==
    /\ pc = "returned"
    /\ LayoutOf(snap.selectedLayout) = "vertical"
    /\ \E a, b \in PhotoOps(canvas.ops) :
          /\ RGt(canvas.ops[a].crop.sx, RInt(0))
          /\ RGt(canvas.ops[b].crop.sy, RInt(0))
          /\ canvas.ops[a].src # canvas.ops[b].src

\* the inputs the determinism property fixes
ClaimInputs(s) == <<s.selectedLayout, s.photo, s.appliedFilters, s.stickers>>

\* a bitmap with the date and time of its footer caption blanked
WithoutFooterTime(bitmap) ==
    [bitmap EXCEPT !.ops =
        [k \in DOMAIN bitmap.ops |->
            IF bitmap.ops[k].kind = "text"
            THEN [bitmap.ops[k] EXCEPT !.text.dateTime = 0]
            ELSE bitmap.ops[k]]]

----------------------------------------------------------------------------
(* Properties of the ImageProcessor *)

\* C4: the images are drawn in the sorted order whatever the order in which
\* their loads complete: addStickers draws in ascending z-index order and
\* createPhotoStrip draws in list order.
DrawOrderIsSortedOrder ==
    ipResult = "resolved" =>
        IF ipOp = "addStickers"
        THEN SubSeq(ipDrawn, 2, Len(ipDrawn)) =
                [k \in DOMAIN ipInput |-> StickerOp(SortByZ(ipInput)[k])]
        ELSE \A k \in DOMAIN ipDrawn : ipDrawn[k].slot = k - 1

\* C6: a render called with no photos fails at once with an error.
NoPhotosFailsFast ==
    (ipOp = "createPhotoStrip" /\ ipInput = << >>) => ipResult = "rejected"

----------------------------------------------------------------------------
(* Properties of the FilterPanel *)

\* the fixed application order of the basic filters
CanonicalBasicOrder ==
    << "grayscale", "sepia", "invert", "blur",
       "brightness", "contrast", "saturate", "hue-rotate" >>

\* C8: the filter description does not depend on the order in which the
\* basic filters were toggled on: it is the description of the same filters
\* taken in the fixed order.
BasicFiltersInCanonicalOrder ==
    getImageStyle(appliedFilters) =
        getImageStyle([appliedFilters EXCEPT !.basic =
            SelectSeq(CanonicalBasicOrder, LAMBDA f : Includes(appliedFilters.basic, f))])

----------------------------------------------------------------------------
(* The sticker elements of the preview (createPhotoStrip) *)

\* the element a sticker is rendered as inside the slot container `index`:
\* absolutely positioned at (left, top) of that container, with CSS z-index
StickerElement(sticker, index) ==
    [sticker |-> sticker.id, slot |-> index,
     left |-> sticker.x, top |-> sticker.y, width |-> sticker.width,
     height |-> sticker.height, rotation |-> sticker.rotation, zIndex |-> sticker.zIndex]

\* the sticker elements in document order: the single portrait maps the
\* stickers once; a strip maps them inside every one of its photoCount slots
PreviewStickerElements(layout, list) ==
    LET photoCount == PhotoCountOf(layout) IN
    IF photoCount = 1
    THEN [k \in 1..Len(list) |-> StickerElement(list[k], 0)]
    ELSE [k \in 1..(photoCount * Len(list)) |->
            StickerElement(list[((k - 1) % Len(list)) + 1], (k - 1) \div Len(list))]

\* C11: each sticker of the list appears exactly once per strip, after (on
\* top of) all photo slots, in the preview and in the export render; it is
\* never repeated once per slot.
StickersOncePerStrip ==
    /\ StripRendered(photo) =>
          LET elements == PreviewStickerElements(selectedLayout, stickers) IN
          \A k \in DOMAIN stickers :
             Cardinality({ e \in DOMAIN elements :
                             elements[e].sticker = stickers[k].id }) = 1
    /\ pc = "returned" =>
          /\ \A k \in DOMAIN snap.stickers :
                Cardinality({ o \in StickerOps(canvas.ops) :
                                canvas.ops[o].id = snap.stickers[k].id })
                  = IF \E l \in StickerLoads(loadLog) :
                          loadLog[l].index = k - 1 /\ loadLog[l].ok
                    THEN 1 ELSE 0
          /\ \A o \in StickerOps(canvas.ops) : \A q \in PhotoOps(canvas.ops) : q < o

----------------------------------------------------------------------------
(* CameraPreview: the countdown effect and startContinuousCapture *)

\* PhotoCanvas, FilterPanel and ImageProcessor at rest
EditorIdle ==
    /\ photo = [isArray |-> TRUE, list |-> PhotoList(1, 1)]
    /\ selectedLayout = NoLayout
    /\ stickers = << >>
    /\ appliedFilters = NoFilters
    /\ stripColor = "#ffffff"
    /\ clock = 0
    /\ RenderIdle
    /\ IPIdle

\* the options of the countdown select, in seconds
CountdownOptions == { 3, 5, 10 }

\* setTimeout delays in half seconds
HalfSeconds(ms) == ms \div 500

Timer(kind, delay, value) == [kind |-> kind, due |-> capNow + HalfSeconds(delay), value |-> value]

Due(kind) == { t \in capTimers : t.kind = kind /\ t.due <= capNow }

MaxSessions == 2   \* capture sessions started in one run

\* head of the loop body: setCountdown(duration), then the awaited timeout
BeginShot(i, timers) ==
    /\ countdown' = currentCountdownDuration
    /\ capTimers' = timers \cup { Timer("resume", currentCountdownDuration * 1000, i) }
    /\ capLog' = Append(IF i = 0 THEN << >> ELSE capLog,
                        [event |-> "countdown", shot |-> i, countdown |-> countdown])
    /\ capI' = i
    /\ capPc' = "countdown"

\* the Start Photo Session button (rendered while no session runs, no
\* countdown shows and the gallery is closed) calls startContinuousCapture
StartContinuousCapture ==
    /\ capPc \in { "idle", "done" }
    /\ capSessions < MaxSessions
    /\ capSessions' = capSessions + 1
    /\ ~isCapturingSession
    /\ countdown = CountdownNull
    /\ ~showGallery
    /\ capError = "null"
    /\ isCapturingSession' = TRUE
    /\ BeginShot(0, capTimers)
    /\ UNCHANGED <<multiShotCount, currentCountdownDuration, effectFor, showGallery,
                   capError, capturedPhotos, capNow>>
    /\ UNCHANGED outsideCapture

\* useEffect on [countdown]: the cleanup of the previous run clears its
\* timer; a positive countdown schedules the next decrement, zero is reset
CountdownEffect ==
    /\ effectFor # countdown
    /\ effectFor' = countdown
    /\ LET cleared == { t \in capTimers : t.kind # "tick" } IN
       IF countdown = CountdownNull
       THEN /\ capTimers' = cleared
            /\ UNCHANGED countdown
       ELSE IF countdown > 0
       THEN /\ capTimers' = cleared \cup { Timer("tick", 1000, countdown) }
            /\ UNCHANGED countdown
       ELSE /\ capTimers' = cleared
            /\ countdown' = CountdownNull
    /\ UNCHANGED <<multiShotCount, currentCountdownDuration, capSessions, isCapturingSession,
                   showGallery,
                   capError, capturedPhotos, capPc, capI, capNow, capLog>>
    /\ UNCHANGED outsideCapture

\* the timer of the effect fires: setCountdown(countdown - 1)
CountdownTick ==
    /\ \E t \in Due("tick") :
          /\ countdown' = t.value - 1
          /\ capTimers' = capTimers \ { t }
    /\ UNCHANGED <<multiShotCount, currentCountdownDuration, capSessions, effectFor,
                   isCapturingSession,
                   showGallery, capError, capturedPhotos, capPc, capI, capNow, capLog>>
    /\ UNCHANGED outsideCapture

\* executeCapture: synchronous from entry to return. After a failure the
\* error view has replaced the video and canvas elements, so the refs are
\* null and the call returns at once; a video without metadata throws
\* 'Video not ready', which the catch block turns into the error state.
CaptureOutcomes == IF capError # "null" THEN { "no refs" } ELSE { "captured", "not ready" }

PhotoOf(i) == [shot |-> i, takenAt |-> capNow]

\* setCapturedPhotos(prev => [...prev, photo])
ReplaceCaptured(prev, newPhoto) == << newPhoto >>

AppendCaptured(prev, newPhoto) == Append(prev, newPhoto)

\* finally { setIsCapturingSession(false) } after the last shot
SessionFlagUnlessFailed(outcome) == outcome # "captured"

SessionFlagAtEnd(outcome) == FALSE

\* the countdown timeout fires: the loop resumes with executeCapture, then
\* waits 500 ms before the next shot or ends the session
ResumeAfterCountdown ==
    /\ capPc = "countdown"
    /\ \E t \in Due("resume") : \E outcome \in CaptureOutcomes :
          /\ capturedPhotos' = IF outcome = "captured"
                               THEN AppendCaptured(capturedPhotos, PhotoOf(capI))
                               ELSE capturedPhotos
          /\ capError' = IF outcome = "not ready" THEN "Failed to capture photo" ELSE capError
          /\ capLog' = Append(capLog,
                          [event |-> outcome, shot |-> capI, countdown |-> countdown])
          /\ IF capI < multiShotCount - 1
             THEN /\ capTimers' = (capTimers \ { t }) \cup { Timer("gap", 500, capI) }
                  /\ capPc' = "gap"
                  /\ UNCHANGED <<showGallery, isCapturingSession>>
             ELSE /\ capTimers' = capTimers \ { t }
                  /\ capPc' = "done"
                  /\ showGallery' = TRUE
                  /\ isCapturingSession' = SessionFlagAtEnd(outcome)
    /\ UNCHANGED <<multiShotCount, currentCountdownDuration, capSessions, countdown, effectFor,
                   capI, capNow>>
    /\ UNCHANGED outsideCapture

\* the 500 ms pause is over: the next iteration of the loop
ResumeAfterPause ==
    /\ capPc = "gap"
    /\ \E t \in Due("gap") : BeginShot(capI + 1, capTimers \ { t })
    /\ UNCHANGED <<multiShotCount, currentCountdownDuration, capSessions, effectFor,
                   isCapturingSession,
                   showGallery, capError, capturedPhotos, capNow>>
    /\ UNCHANGED outsideCapture

\* half a second passes: every due timer has fired and the pending effect
\* has run
CapTimePasses ==
    /\ capTimers # {}
    /\ \A t \in capTimers : t.due > capNow
    /\ effectFor = countdown
    /\ capNow' = capNow + 1
    /\ UNCHANGED <<multiShotCount, currentCountdownDuration, capSessions, countdown, effectFor,
                   isCapturingSession, showGallery, capError, capturedPhotos,
                   capPc, capI, capTimers, capLog>>
    /\ UNCHANGED outsideCapture

\* the Continue Capturing button of the gallery
handleContinueCapturing ==
    /\ showGallery
    /\ capError = "null"
    /\ showGallery' = FALSE
    /\ UNCHANGED <<multiShotCount, currentCountdownDuration, capSessions, countdown, effectFor,
                   isCapturingSession, capError, capturedPhotos, capPc, capI, capNow,
                   capTimers, capLog>>
    /\ UNCHANGED outsideCapture

\* CameraPreview mounted by HomePage with the photo count of the selected
\* layout; the countdown time has been chosen from the select
InitCapture ==
    /\ EditorIdle
    /\ multiShotCount \in { l.photoCount : l \in FRAME_LAYOUTS }
    /\ currentCountdownDuration \in CountdownOptions
    /\ countdown = CountdownNull
    /\ effectFor = CountdownNull
    /\ isCapturingSession = FALSE
    /\ showGallery = FALSE
    /\ capError = "null"
    /\ capturedPhotos = << >>
    /\ capPc = "idle"
    /\ capI = 0
    /\ capNow = 0
    /\ capTimers = {}
    /\ capLog = << >>
    /\ capSessions = 0
    /\ PanelIdle
    /\ StoreIdle
    /\ SaveIdle
    /\ EditIdle
    /\ HomeIdle
    /\ PhotosIdle
    /\ CountdownIdle

NextCapture ==
    \/ StartContinuousCapture
    \/ CountdownEffect
    \/ CountdownTick
    \/ ResumeAfterCountdown
    \/ ResumeAfterPause
    \/ CapTimePasses
    \/ handleContinueCapturing

SpecCapture == InitCapture /\ [][NextCapture]_vars

\* timers fire when due, pending effects run and time passes; the user is
\* free never to press a button
SpecCaptureFair ==
    /\ InitCapture
    /\ [][NextCapture]_vars
    /\ WF_vars(CountdownEffect)
    /\ WF_vars(CountdownTick)
    /\ WF_vars(ResumeAfterCountdown)
    /\ WF_vars(ResumeAfterPause)
    /\ WF_vars(CapTimePasses)

\* C12: a capture sequence of N shots produces exactly N photos; each
\* shot's capture happens after that shot's own countdown has finished and
\* before the next shot's countdown starts.
CaptureSequenceExact ==
    /\ capPc = "done" => Len(capturedPhotos) = multiShotCount
    /\ \A k \in DOMAIN capLog :
          capLog[k].event # "countdown" =>
             /\ capLog[k].countdown = CountdownNull
             /\ k > 1 /\ capLog[k - 1] .event = "countdown"
             /\ capLog[k - 1].shot = capLog[k].shot
    /\ \A k \in DOMAIN capLog :
          (capLog[k].event = "countdown" /\ k > 1) =>
             /\ capLog[k - 1].event # "countdown"
             /\ capLog[k - 1].shot + 1 = capLog[k].shot

----------------------------------------------------------------------------
(* StickerPanel and the sticker handlers of HomePage *)

MaxAdds == 4   \* Add clicks in one run

\* the sample stickers offered by the panel
SAMPLE_STICKERS == { [id |-> id, src |-> Sticker(id).src] : id \in StickerIds }

\* HomePage.handleAddSticker: setStickers(prev => [...prev, sticker])
HomeAddSticker(prev, sticker) == Append(prev, sticker)

\* HomePage.handleRemoveSticker: setStickers(prev => prev.filter(s => s.id !== stickerId))
HomeRemoveSticker(prev, stickerId) == SelectSeq(prev, LAMBDA s : s.id # stickerId)

\* the layer given to a new sticker
NewZIndex(list) == Len(list) + 1

\* StickerPanel.handleAddSticker; the id is `${stickerData.id}-${Date.now()}`
\* and two clicks are never in the same millisecond
PanelAddSticker(stickerData) ==
    /\ clock < MaxAdds
    /\ Len(stickers) < MaxStickers
    /\ LET newSticker == [id |-> <<stickerData.id, clock>>, src |-> stickerData.src,
                          x |-> 100, y |-> 100, width |-> 60, height |-> 60,
                          rotation |-> 0, zIndex |-> NewZIndex(stickers)]
       IN  /\ stickers' = HomeAddSticker(stickers, newSticker)
           /\ lastAdded' = newSticker.id
    /\ clock' = clock + 1
    /\ UNCHANGED outsidePanel

\* StickerPanel.handleRemoveSticker on the remove button of a listed sticker
PanelRemoveSticker(stickerId) ==
    /\ \E k \in DOMAIN stickers : stickers[k].id = stickerId
    /\ stickers' = HomeRemoveSticker(stickers, stickerId)
    /\ lastAdded' = NoSticker
    /\ UNCHANGED clock
    /\ UNCHANGED outsidePanel

\* HomePage starts without stickers
InitPanel ==
    /\ photo = [isArray |-> TRUE, list |-> PhotoList(1, 1)]
    /\ selectedLayout \in FRAME_LAYOUTS
    /\ stickers = << >>
    /\ appliedFilters = NoFilters
    /\ stripColor = "#ffffff"
    /\ clock = 0
    /\ RenderIdle
    /\ IPIdle
    /\ AppIdle

NextPanel ==
    \/ \E stickerData \in SAMPLE_STICKERS : PanelAddSticker(stickerData)
    \/ \E k \in 1..MaxStickers :
          k \in DOMAIN stickers /\ PanelRemoveSticker(stickers[k].id)

SpecPanel == InitPanel /\ [][NextPanel]_vars

\* CSS painting order of two elements of the preview: the higher z-index is
\* on top, equal z-indexes paint in document order
PreviewAbove(elements, a, b) ==
    \/ elements[a].zIndex > elements[b].zIndex
    \/ elements[a].zIndex = elements[b].zIndex /\ a > b

\* C13: after any sequence of adds and removes, a newly added sticker has
\* z-index count + 1 (count = the stickers before the add) and draws on top
\* of every sticker already in the list.
NewStickerOnTop ==
    lastAdded # NoSticker =>
       LET elements == PreviewStickerElements(selectedLayout, stickers)
           new == Len(stickers)
       IN  /\ stickers[new].id = lastAdded
           /\ stickers[new].zIndex = (Len(stickers) - 1) + 1
           /\ \A a, b \in DOMAIN elements :
                 (/\ elements[a].sticker = lastAdded
                  /\ elements[b].sticker # lastAdded
                  /\ elements[a].slot = elements[b].slot) => PreviewAbove(elements, a, b)

----------------------------------------------------------------------------
(* PhotoCanvas: the Save to Gallery button *)

\* what the POST to /api/photos may come back with: the route's own
\* answers, a server error whose body is not JSON, or no response at all
Responses ==
    { [ok |-> TRUE, status |-> 201, statusText |-> "Created", error |-> Null],
      [ok |-> FALSE, status |-> 401, statusText |-> "Unauthorized", error |-> "Unauthorized"],
      [ok |-> FALSE, status |-> 404, statusText |-> "Not Found", error |-> "User not found"],
      [ok |-> FALSE, status |-> 400, statusText |-> "Bad Request", error |-> "Missing photo url"],
      [ok |-> FALSE, status |-> 500, statusText |-> "Internal Server Error", error |-> Null] }

\* data.error || res.statusText, data being {} when the body does not parse
FailureDetail(res) == IF res.error # Null THEN res.error ELSE res.statusText

\* the strip photo built from the rendered canvas
StripPhoto == [size |-> "large", layout |-> selectedLayout, photos |-> Photos(photo)]

\* the button is enabled: setSaveStatus("Saving..."), setSaveDisabled(true),
\* then the render is awaited
SaveClick ==
    /\ ~saveDisabled
    /\ saveStatus' = StatusLine("Saving...", "")
    /\ saveDisabled' = TRUE
    /\ saveRequests' = 0
    /\ saveOutcome' = [result |-> "none", galleryBefore |-> galleryPhotos]
    /\ savePc' = "drawing"
    /\ UNCHANGED <<galleryPhotos, saveFlight>>
    /\ UNCHANGED outsideSave

\* drawStripToCanvas has returned: the strip photo is built and posted
SavePost ==
    /\ savePc = "drawing"
    /\ saveRequests' = saveRequests + 1
    /\ savePc' = "posting"
    /\ UNCHANGED <<saveStatus, saveDisabled, saveOutcome, galleryPhotos, saveFlight>>
    /\ UNCHANGED outsideSave

\* the response arrives
SaveResponse(res) ==
    /\ savePc = "posting"
    /\ IF res.ok
       THEN /\ saveStatus' = StatusLine("Saved to gallery!", "")
            /\ galleryPhotos' = Append(galleryPhotos, StripPhoto)
            /\ saveOutcome' = [saveOutcome EXCEPT !.result = "ok"]
            /\ UNCHANGED saveDisabled
       ELSE /\ saveStatus' = StatusLine("Failed to save: ", FailureDetail(res))
            /\ saveDisabled' = FALSE
            /\ saveOutcome' = [saveOutcome EXCEPT !.result = "not ok"]
            /\ UNCHANGED galleryPhotos
    /\ savePc' = "done"
    /\ UNCHANGED <<saveRequests, saveFlight>>
    /\ UNCHANGED outsideSave

\* fetch rejects (no connection): the handler has no try/catch around the
\* await, so it ends there with an unhandled rejection
SaveRequestFails ==
    /\ savePc = "posting"
    /\ saveOutcome' = [saveOutcome EXCEPT !.result = "rejected"]
    /\ savePc' = "threw"
    /\ UNCHANGED <<saveStatus, saveDisabled, saveRequests, galleryPhotos, saveFlight>>
    /\ UNCHANGED outsideSave

\* a strip preview, which is the view that has the Save button
InitSave ==
    /\ photo \in { p \in PhotoInputs : StripRendered(p) }
    /\ selectedLayout \in { l \in FRAME_LAYOUTS \cup { NoLayout } : PhotoCountOf(l) # 1 }
    /\ stickers = << >>
    /\ appliedFilters = NoFilters
    /\ stripColor = "#ffffff"
    /\ clock = 0
    /\ RenderIdle
    /\ IPIdle
    /\ AppIdle

NextSave ==
    \/ SaveClick
    \/ SavePost
    \/ \E res \in Responses : SaveResponse(res)
    \/ SaveRequestFails

SpecSave == InitSave /\ [][NextSave]_vars

\* C14: whenever saving the strip fails (non-OK response, or the request
\* itself fails), the save ends in an explicit failure state: a failure
\* message is shown, the Save button is enabled again, no second request
\* was made, and the strip is not added to the local gallery.
SaveFailureIsExplicit ==
    (savePc \in { "done", "threw" } /\ saveOutcome.result \in { "not ok", "rejected" }) =>
       /\ saveStatus.text = "Failed to save: "
       /\ ~saveDisabled
       /\ saveRequests = 1
       /\ galleryPhotos = saveOutcome.galleryBefore

----------------------------------------------------------------------------
(* HomePage: the photo being edited, and download and share of usePhotos *)

\* a photo as CameraPreview hands it over: originalSrc and processedSrc are
\* the same capture, no stickers
CapturedPhoto(k) ==
    [id |-> PhotoIds[k], originalSrc |-> Photo(k).originalSrc,
     processedSrc |-> Bitmap(Photo(k).originalSrc, NoFilters, << >>),
     filtersApplied |-> NoFilters, stickers |-> << >>,
     isDownloaded |-> FALSE, isShared |-> FALSE]

CapturedInputs == { [j \in 1..n |-> CapturedPhoto(j)] : n \in 1..2 }

\* the sticker lists PhotoCanvas passes to onPhotoUpdate
StickerUpdates == { << >>, << Sticker("emoji-1") >> }

\* { ...photo, ...updates }
Merge(p, updates) == [f \in DOMAIN p |-> IF f \in DOMAIN updates THEN updates[f] ELSE p[f]]

\* usePhotos.updatePhoto
updatePhoto(list, photoId, updates) ==
    [k \in DOMAIN list |-> IF list[k].id = photoId THEN Merge(list[k], updates) ELSE list[k]]

RECURSIVE UpdateEach(_, _, _)
\* updatedPhotos.forEach(photo => updatePhoto(photo.id, updates))
UpdateEach(list, ids, updates) ==
    IF ids = << >> THEN list
    ELSE UpdateEach(updatePhoto(list, Head(ids), updates), Tail(ids), updates)

\* photo.processedSrc || photo.originalSrc
ExportSrc(p) ==
    IF Truthy(p.processedSrc.data) THEN p.processedSrc
    ELSE Bitmap(p.originalSrc, NoFilters, << >>)

handlePhotoCaptured(photos) ==
    /\ currentPhoto' = photos
    /\ viewMode' = "editing"
    /\ UNCHANGED <<sessionPhotos, lastExport, appliedFilters, stickers>>
    /\ UNCHANGED outsideHome

\* every photo of currentPhoto is merged with the updates, and usePhotos is
\* told about each of them
handlePhotoUpdate(updates) ==
    /\ currentPhoto # << >>
    /\ currentPhoto' = [k \in DOMAIN currentPhoto |-> Merge(currentPhoto[k], updates)]
    /\ sessionPhotos' = UpdateEach(sessionPhotos,
                           [k \in DOMAIN currentPhoto |-> currentPhoto[k].id], updates)
    /\ UNCHANGED <<lastExport, viewMode, appliedFilters, stickers>>
    /\ UNCHANGED outsideHome

handleFiltersChange(filters) ==
    /\ appliedFilters # filters
    /\ appliedFilters' = filters
    /\ UNCHANGED <<homeVars, stickers>>
    /\ UNCHANGED outsideHome

handleApplyFilters == handlePhotoUpdate([filtersApplied |-> appliedFilters])

\* handleDownload and handleShare export the first photo through
\* usePhotos.downloadPhoto and sharePhoto, which then mark it
handleExport(via) ==
    /\ currentPhoto # << >>
    /\ LET first == currentPhoto[1] IN
       /\ lastExport' = [via |-> via, imageSrc |-> ExportSrc(first),
                         filtersApplied |-> first.filtersApplied,
                         stickers |-> first.stickers]
       /\ sessionPhotos' = updatePhoto(sessionPhotos, first.id,
                              IF via = "download" THEN [isDownloaded |-> TRUE]
                              ELSE [isShared |-> TRUE])
    /\ UNCHANGED <<currentPhoto, viewMode, appliedFilters, stickers>>
    /\ UNCHANGED outsideHome

handleRetakePhoto ==
    /\ currentPhoto # << >>
    /\ currentPhoto' = << >>
    /\ appliedFilters' = NoFilters
    /\ stickers' = << >>
    /\ viewMode' = "camera"
    /\ UNCHANGED <<sessionPhotos, lastExport>>
    /\ UNCHANGED outsideHome

\* HomePage mounted
InitHome ==
    /\ photo = [isArray |-> TRUE, list |-> PhotoList(1, 1)]
    /\ selectedLayout = NoLayout
    /\ stickers = << >>
    /\ appliedFilters = NoFilters
    /\ stripColor = "#ffffff"
    /\ clock = 0
    /\ RenderIdle
    /\ IPIdle
    /\ AppIdle

NextHome ==
    \/ \E photos \in CapturedInputs : handlePhotoCaptured(photos)
    \/ \E list \in StickerUpdates : handlePhotoUpdate([stickers |-> list])
    \/ \E filters \in FilterInputs : handleFiltersChange(filters)
    \/ handleApplyFilters
    \/ \E via \in { "download", "share" } : handleExport(via)
    \/ handleRetakePhoto

SpecHome == InitHome /\ [][NextHome]_vars

\* a processed image is current when it was rendered with the photo's
\* filter description and sticker list
Current(bitmap, filters, list) ==
    bitmap.renderedWith = filters /\ bitmap.stickers = list

\* C15: in every reachable state a photo's processedSrc, when present,
\* reflects the latest applied filters (and stickers), so that a stale
\* processed image is never what download or share uses.
ProcessedSrcIsCurrent ==
    /\ \A k \in DOMAIN currentPhoto :
          Truthy(currentPhoto[k].processedSrc.data) =>
             Current(currentPhoto[k].processedSrc, currentPhoto[k].filtersApplied,
                     currentPhoto[k].stickers)
    /\ lastExport.via # "none" =>
          Current(lastExport.imageSrc, lastExport.filtersApplied, lastExport.stickers)

----------------------------------------------------------------------------
(* Geometry of the export canvas *)

\* the rectangle [x, x + width] x [y, y + height] lies on the canvas
InsideCanvas(op, c) ==
    /\ RLeq(RInt(0), op.x)
    /\ RLeq(RInt(0), op.y)
    /\ RLeq(RAdd(op.x, op.width), RInt(c.width))
    /\ RLeq(RAdd(op.y, op.height), RInt(c.height))

\* C16: for every supported layout and photo count the destination rectangle
\* of every slot lies inside the export canvas, and a single-photo layout has
\* a 200x100 canvas with exactly one slot, which holds the one photo.
SlotsInsideCanvas ==
    pc = "returned" =>
       /\ \A o \in PhotoOps(canvas.ops) : InsideCanvas(canvas.ops[o], canvas)
       /\ PhotoCountOf(snap.selectedLayout) = 1 =>
             /\ canvas.width = 200 /\ canvas.height = 100
             /\ Cardinality(PhotoOps(canvas.ops)) <= 1
             /\ Cardinality(PhotoLoads(loadLog)) = 1
             /\ \A l \in PhotoLoads(loadLog) : loadLog[l].src = PrimarySrc(snap.photo)

----------------------------------------------------------------------------
(* The photo store: GET and POST of /api/photos *)

MaxStored == 3   \* photo records created in one run

\* the e-mail a request is authenticated as: none, a known user's, or that
\* of an account without a User row
Credentials == { Null, "", "ann@example.com", "bob@example.com", "eve@example.com" }

\* request bodies: the image URL may be missing or empty, and a body may
\* carry a userId of its own
Bodies ==
    { [imageUrl |-> u, userId |-> o] :
        u \in { Null, "", "data:strip1", "data:strip2" }, o \in { Null, "u1", "u2" } }

\* !session?.user?.email, !token?.email, !imageUrl
Missing(value) == value = Null \/ value = ""

\* prisma.user.findUnique({ where: { email } })
FindUnique(email) == { u \in dbUsers : u.email = email }

\* prisma.photo.findMany({ where: { userId }, orderBy: { createdAt: "desc" } })
FindMany(userId) ==
    LET own == SelectSeq(dbPhotos, LAMBDA r : r.userId = userId)
    IN  [k \in 1..Len(own) |-> own[Len(own) + 1 - k]]

\* the owner written by prisma.photo.create
OwnerFromBody(user, body) == IF body.userId # Null THEN body.userId ELSE user.id

Owner(user, body) == user.id

Response(method, email, status, records) ==
    [method |-> method, email |-> email, status |-> status, records |-> records,
     before |-> dbPhotos]

GET(email) ==
    /\ IF Missing(email)
       THEN lastResponse' = Response("GET", email, 401, << >>)
       ELSE IF FindUnique(email) = {}
       THEN lastResponse' = Response("GET", email, 404, << >>)
       ELSE LET user == CHOOSE u \in FindUnique(email) : TRUE
            IN  lastResponse' = Response("GET", email, 200, FindMany(user.id))
    /\ UNCHANGED <<dbUsers, dbPhotos>>
    /\ UNCHANGED outsideStore

POST(email, body) ==
    /\ Len(dbPhotos) < MaxStored
    /\ IF Missing(email)
       THEN /\ lastResponse' = Response("POST", email, 401, << >>)
            /\ UNCHANGED dbPhotos
       ELSE IF FindUnique(email) = {}
       THEN /\ lastResponse' = Response("POST", email, 404, << >>)
            /\ UNCHANGED dbPhotos
       ELSE IF Missing(body.imageUrl)
       THEN /\ lastResponse' = Response("POST", email, 400, << >>)
            /\ UNCHANGED dbPhotos
       ELSE LET user == CHOOSE u \in FindUnique(email) : TRUE
                record == [id |-> Len(dbPhotos) + 1, userId |-> Owner(user, body),
                           imageUrl |-> body.imageUrl, createdAt |-> Len(dbPhotos) + 1,
                           postedAs |-> email]
            IN  /\ dbPhotos' = Append(dbPhotos, record)
                /\ lastResponse' = Response("POST", email, 201, << record >>)
    /\ UNCHANGED dbUsers
    /\ UNCHANGED outsideStore

InitStore ==
    /\ EditorIdle
    /\ AppIdle

NextStore ==
    \/ \E email \in Credentials : GET(email)
    \/ \E email \in Credentials, body \in Bodies : POST(email, body)

SpecStore == InitStore /\ [][NextStore]_vars

\* C17: every stored record is owned by the user authenticated on the POST
\* that created it; a GET returns exactly the records of its authenticated
\* user; a 401, 404 or 400 answer stores nothing and returns no records.
StoreKeepsOwners ==
    /\ \A k \in DOMAIN dbPhotos :
          \E u \in dbUsers : u.email = dbPhotos[k].postedAs /\ u.id = dbPhotos[k].userId
    /\ (lastResponse.method = "GET" /\ lastResponse.status = 200) =>
          \E u \in dbUsers :
             /\ u.email = lastResponse.email
             /\ Range(lastResponse.records) = { r \in Range(dbPhotos) : r.userId = u.id }
             /\ Len(lastResponse.records) = Cardinality(Range(lastResponse.records))
    /\ lastResponse.status \in { 401, 404, 400 } =>
          /\ lastResponse.records = << >>
          /\ dbPhotos = lastResponse.before
          /\ \/ Missing(lastResponse.email)
             \/ FindUnique(lastResponse.email) = {}
             \/ lastResponse.method = "POST"
    /\ lastResponse.status = 201 =>
          /\ Len(dbPhotos) = Len(lastResponse.before) + 1
          /\ lastResponse.records = << dbPhotos[Len(dbPhotos)] >>
          /\ dbPhotos[Len(dbPhotos)].postedAs = lastResponse.email

\* both users have stored photos and the last request was a GET of one of
\* them that returned a proper part of the table
StoreKeepsOwnersWitness ==
    /\ lastResponse.method = "GET"
    /\ lastResponse.status = 200
    /\ lastResponse.records # << >>
    /\ Len(lastResponse.records) < Len(dbPhotos)
    /\ \E k \in DOMAIN dbPhotos :
          dbPhotos[k].postedAs = "bob@example.com" /\ dbPhotos[k].userId = "u2"

----------------------------------------------------------------------------
(* PhotoCanvas: selecting, nudging, deleting and dragging stickers *)

MaxEventSlots == 2   \* slot containers whose sticker elements receive events

ArrowKeys == { "ArrowLeft", "ArrowRight", "ArrowUp", "ArrowDown" }

Keys == ArrowKeys \cup { "Delete", "Backspace", "Enter" }

\* where the pointer is inside the element it is over
PointerOffsets == { [x |-> 30, y |-> 30], [x |-> 33, y |-> 25] }

\* page position of the slot container `index` (the slots are stacked, each
\* image 224 high with 8 between them)
SlotOrigin(index) == [left |-> 300, top |-> 80 + 232 * index]

\* the sticker elements that can receive an event
EventElements ==
    LET elements == PreviewStickerElements(selectedLayout, stickers) IN
    { e \in DOMAIN elements : elements[e].slot < MaxEventSlots }

\* getBoundingClientRect of a sticker element
BoundingRect(element) ==
    [left |-> SlotOrigin(element.slot).left + element.left,
     top |-> SlotOrigin(element.slot).top + element.top]

\* clientX, clientY of an event at `offset` inside the element
Client(element, offset) ==
    [x |-> BoundingRect(element).left + offset.x,
     y |-> BoundingRect(element).top + offset.y]

\* stickers.find(s => s.id === selectedSticker)
Find(list, id) == { k \in DOMAIN list : list[k].id = id }

\* the switch on e.key
NudgeDiagonal(sticker, key) ==
    CASE key = "ArrowLeft"  -> [sticker EXCEPT !.x = @ - 5, !.y = @ - 5]
      [] key = "ArrowRight" -> [sticker EXCEPT !.x = @ + 5, !.y = @ + 5]
      [] key = "ArrowUp"    -> [sticker EXCEPT !.y = @ - 5]
      [] OTHER              -> [sticker EXCEPT !.y = @ + 5]

Nudge(sticker, key) ==
    CASE key = "ArrowLeft"  -> [sticker EXCEPT !.x = @ - 5]
      [] key = "ArrowRight" -> [sticker EXCEPT !.x = @ + 5]
      [] key = "ArrowUp"    -> [sticker EXCEPT !.y = @ - 5]
      [] OTHER              -> [sticker EXCEPT !.y = @ + 5]

\* stickers.map(s => s.id === selectedSticker ? updated : s)
MapSelected(list, id, updated) ==
    [k \in DOMAIN list |-> IF list[k].id = id THEN updated ELSE list[k]]

\* stickers.filter(s => s.id !== selectedSticker)
FilterFromSelected(list, id) ==
    SubSeq(list, 1, (CHOOSE k \in DOMAIN list : list[k].id = id) - 1)

FilterSelected(list, id) == SelectSeq(list, LAMBDA s : s.id # id)

\* onPhotoUpdate({ stickers: list }): HomePage.handlePhotoUpdate stores the
\* list on the photos of currentPhoto; the `stickers` prop is a separate
\* state of HomePage
Emit(list) == lastUpdate' = [given |-> TRUE, stickers |-> list]

\* onClick of a sticker element: select it, or clear the selection when it
\* is the selected one
handleStickerClick(element) ==
    /\ selectedSticker' = IF selectedSticker = element.sticker THEN Null ELSE element.sticker
    /\ lastEvent' = Event("click", "", NoPointer)
    /\ UNCHANGED <<isDragging, dragOffset, lastUpdate, dragStart>>

\* onMouseDown of a sticker element
handleMouseDown(element, offset) ==
    /\ LET client == Client(element, offset)
           rect == BoundingRect(element)
       IN  IF selectedSticker = Null \/ selectedSticker # element.sticker
           THEN UNCHANGED <<isDragging, dragOffset, dragStart>>
           ELSE /\ isDragging' = TRUE
                /\ dragOffset' = [x |-> client.x - rect.left, y |-> client.y - rect.top]
                /\ dragStart' = [pointer |-> client, sticker |-> element.sticker,
                                 position |-> [x |-> element.left, y |-> element.top]]
    /\ lastEvent' = Event("mousedown", "", NoPointer)
    /\ UNCHANGED <<selectedSticker, lastUpdate>>

\* onMouseMove of a sticker element; e.currentTarget is that element
handleMouseMove(element, offset) ==
    /\ LET client == Client(element, offset)
           rect == BoundingRect(element)
           found == Find(stickers, selectedSticker)
       IN  /\ lastEvent' = Event("mousemove", "", client)
           /\ IF ~isDragging \/ selectedSticker = Null \/ found = {}
              THEN UNCHANGED lastUpdate
              ELSE LET sticker == stickers[CHOOSE k \in found : \A j \in found : k <= j]
                       newX == client.x - rect.left - dragOffset.x
                       newY == client.y - rect.top - dragOffset.y
                   IN  Emit(MapSelected(stickers, selectedSticker,
                                        [sticker EXCEPT !.x = newX, !.y = newY]))
    /\ UNCHANGED <<selectedSticker, isDragging, dragOffset, dragStart>>

\* onMouseUp of a sticker element
handleMouseUp ==
    /\ isDragging' = FALSE
    /\ lastEvent' = Event("mouseup", "", NoPointer)
    /\ UNCHANGED <<selectedSticker, dragOffset, lastUpdate, dragStart>>

\* the keydown listener on the document
handleKeyDown(key) ==
    /\ LET found == Find(stickers, selectedSticker) IN
       IF selectedSticker = Null \/ found = {}
       THEN UNCHANGED <<selectedSticker, lastUpdate>>
       ELSE IF key \in ArrowKeys
       THEN LET sticker == stickers[CHOOSE k \in found : \A j \in found : k <= j]
            IN  /\ Emit(MapSelected(stickers, selectedSticker, Nudge(sticker, key)))
                /\ UNCHANGED selectedSticker
       ELSE IF key \in { "Delete", "Backspace" }
       THEN /\ Emit(FilterSelected(stickers, selectedSticker))
            /\ selectedSticker' = Null
       ELSE UNCHANGED <<selectedSticker, lastUpdate>>
    /\ lastEvent' = Event("keydown", key, NoPointer)
    /\ UNCHANGED <<isDragging, dragOffset, dragStart>>

\* PhotoCanvas mounted with a layout and any supplied sticker list
InitEdit ==
    /\ photo = [isArray |-> TRUE, list |-> PhotoList(1, 1)]
    /\ selectedLayout \in FRAME_LAYOUTS
    /\ stickers \in StickerInputs
    /\ appliedFilters = NoFilters
    /\ stripColor = "#ffffff"
    /\ clock = 0
    /\ RenderIdle
    /\ IPIdle
    /\ AppIdle

\* the sticker element `e` of the preview
ElementAt(e) == PreviewStickerElements(selectedLayout, stickers)[e]

\* PhotoCanvas on its own: its parent records the list handed to
\* onPhotoUpdate and passes the same props again
Unwired(handler) == handler /\ UNCHANGED outsideEdit

\* clicks and key presses
NextKeys ==
    \/ \E e \in EventElements : Unwired(handleStickerClick(ElementAt(e)))
    \/ \E key \in Keys : Unwired(handleKeyDown(key))

SpecKeys == InitEdit /\ [][NextKeys]_vars

\* clicks and pointer events; the browser delivers a click after the mouseup
\* on the same element, so no drag is in progress when it arrives
NextDrag ==
    \/ \E e \in EventElements : ~isDragging /\ Unwired(handleStickerClick(ElementAt(e)))
    \/ \E e \in EventElements, offset \in PointerOffsets :
          Unwired(handleMouseDown(ElementAt(e), offset))
    \/ \E e \in EventElements, offset \in PointerOffsets :
          Unwired(handleMouseMove(ElementAt(e), offset))
    \/ EventElements # {} /\ Unwired(handleMouseUp)

SpecDrag == InitEdit /\ [][NextDrag]_vars

\* the displacement the claims give to each arrow key
KeyDelta(key) ==
    CASE key = "ArrowLeft"  -> [x |-> -5, y |-> 0]
      [] key = "ArrowRight" -> [x |-> 5, y |-> 0]
      [] key = "ArrowUp"    -> [x |-> 0, y |-> -5]
      [] key = "ArrowDown"  -> [x |-> 0, y |-> 5]
      [] OTHER              -> [x |-> 0, y |-> 0]

\* C18: an arrow-key press hands onPhotoUpdate the list in which only the
\* selected sticker moved, by exactly 5 in the key's direction (left/right
\* change x, up/down change y), its size, rotation and z-index and every
\* other sticker unchanged, the selection kept; with no sticker selected, or
\* for a key the listener does not handle (neither an arrow key nor
\* Delete/Backspace), nothing changes.
ArrowKeyNudges ==
    [][lastEvent'.type = "keydown" =>
         LET key == lastEvent'.key
             delta == KeyDelta(key)
             updated == lastUpdate'.stickers
         IN  IF selectedSticker # Null /\ key \in ArrowKeys
             THEN /\ lastUpdate'.given
                  /\ selectedSticker' = selectedSticker
                  /\ Len(updated) = Len(stickers)
                  /\ \A k \in DOMAIN stickers :
                        IF stickers[k].id = selectedSticker
                        THEN updated[k] = [stickers[k] EXCEPT !.x = @ + delta.x,
                                                              !.y = @ + delta.y]
                        ELSE updated[k] = stickers[k]
             ELSE IF selectedSticker = Null \/ key \notin { "Delete", "Backspace" }
             THEN UNCHANGED <<stickers, selectedSticker, lastUpdate, isDragging, dragOffset>>
             ELSE TRUE]_vars

\* ArrowLeft pressed with the second of three stickers selected: the list
\* handed over has that sticker 5 to the left
ArrowKeyNudgesWitness ==
    /\ lastEvent = Event("keydown", "ArrowLeft", NoPointer)
    /\ Len(stickers) = 3
    /\ selectedSticker = stickers[2].id
    /\ lastUpdate.given
    /\ lastUpdate.stickers[2].x = stickers[2].x - 5
    /\ lastUpdate.stickers[2].y = stickers[2].y

\* C19: Delete or Backspace with a sticker selected hands onPhotoUpdate the
\* list without exactly that sticker, the others in their order with all
\* their attributes, and clears the selection.
DeleteRemovesSelected ==
    [][(/\ lastEvent'.type = "keydown"
        /\ lastEvent'.key \in { "Delete", "Backspace" }
        /\ selectedSticker # Null) =>
         /\ selectedSticker' = Null
         /\ lastUpdate'.given
         /\ \E p \in DOMAIN stickers :
               /\ stickers[p].id = selectedSticker
               /\ lastUpdate'.stickers =
                     SubSeq(stickers, 1, p - 1) \o SubSeq(stickers, p + 1, Len(stickers))]_vars

\* Delete pressed with the first of three stickers selected: the two after
\* it were handed over in their order, and nothing is selected
DeleteRemovesSelectedWitness ==
    /\ lastEvent = Event("keydown", "Delete", NoPointer)
    /\ Len(stickers) = 3
    /\ selectedSticker = Null
    /\ lastUpdate.given
    /\ lastUpdate.stickers = << stickers[2], stickers[3] >>

\* C20: while a sticker is dragged, a pointer move hands onPhotoUpdate the
\* list in which the dragged sticker is at its position at mouse-down plus
\* the pointer's displacement since mouse-down, unclamped, every other
\* sticker unchanged; a drag starts only on mouse-down over the selected
\* sticker, and a move with no drag in progress changes nothing.
DragFollowsPointer ==
    [][lastEvent'.type = "mousemove" =>
         IF isDragging /\ selectedSticker # Null
         THEN /\ lastUpdate'.given
              /\ Len(lastUpdate'.stickers) = Len(stickers)
              /\ \A k \in DOMAIN stickers :
                    IF stickers[k].id = selectedSticker
                    THEN lastUpdate'.stickers[k] =
                            [stickers[k] EXCEPT
                               !.x = dragStart.position.x
                                        + (lastEvent'.pointer.x - dragStart.pointer.x),
                               !.y = dragStart.position.y
                                        + (lastEvent'.pointer.y - dragStart.pointer.y)]
                    ELSE lastUpdate'.stickers[k] = stickers[k]
         ELSE UNCHANGED <<stickers, selectedSticker, lastUpdate, isDragging, dragOffset>>]_vars

\* a drag is in progress only after a mouse-down over the selected sticker,
\* and a move with no drag in progress changes nothing
DragStartsOnSelected ==
    [][/\ (~isDragging /\ isDragging') =>
            /\ lastEvent'.type = "mousedown"
            /\ selectedSticker # Null
            /\ dragStart'.sticker = selectedSticker
       /\ (lastEvent'.type = "mousemove" /\ ~isDragging) =>
            UNCHANGED <<stickers, selectedSticker, lastUpdate, isDragging, dragOffset>>]_vars

----------------------------------------------------------------------------
(* FilterPanel: the advanced sliders *)

\* appliedFilters.advanced[name]: the stored entries of that name (none when
\* the key is undefined)
Stored(advanced, name) == { k \in DOMAIN advanced : advanced[k].name = name }

\* appliedFilters.advanced[filter.name] || filter.defaultValue, the value of
\* the range input and of the label beside it: undefined and 0 are falsy
SliderValue(advanced, filter) ==
    LET found == Stored(advanced, filter.name) IN
    IF found # {} /\ advanced[CHOOSE k \in found : TRUE].value # 0
    THEN advanced[CHOOSE k \in found : TRUE].value
    ELSE filter.defaultValue

\* C21: an advanced filter with no stored entry is shown with its declared
\* default value, and one with a stored entry is shown with exactly the
\* stored value, for every value in its declared range.
AdvancedShownAsStored ==
    \A f \in Range(ADVANCED_FILTERS) :
        LET found == Stored(appliedFilters.advanced, f.name) IN
        IF found = {}
        THEN SliderValue(appliedFilters.advanced, f) = f.defaultValue
        ELSE \A k \in found :
                (f.min <= appliedFilters.advanced[k].value
                   /\ appliedFilters.advanced[k].value <= f.max)
                => SliderValue(appliedFilters.advanced, f) = appliedFilters.advanced[k].value

----------------------------------------------------------------------------
(* Properties of the capture sessions of CameraPreview *)

SessionFlagTracksSequence ==
    /\ [](isCapturingSession <=> capPc \in { "countdown", "gap" })
    /\ [][isCapturingSession => capSessions' = capSessions]_vars
    /\ (isCapturingSession ~> ~isCapturingSession)

\* a second sequence, some shot of which failed, has ended and the flag is
\* false again
SessionFlagTracksSequenceWitness ==
    /\ capSessions = 2
    /\ capPc = "done"
    /\ capError # "null"
    /\ ~isCapturingSession

----------------------------------------------------------------------------
(* PhotoCanvas as HomePage mounts it: stickers={stickers},
   onPhotoUpdate={handlePhotoUpdate} *)

\* a handler of PhotoCanvas whose onPhotoUpdate is HomePage.handlePhotoUpdate:
\* the list handed over is merged into every photo of currentPhoto and sent
\* to usePhotos.updatePhoto; setStickers is not called. currentPhoto changes
\* in no other way here, so merging the last list again changes nothing.
Wired(handler) ==
    /\ handler
    /\ IF lastUpdate'.given /\ currentPhoto # << >>
       THEN LET updates == [stickers |-> lastUpdate'.stickers] IN
            /\ currentPhoto' = [k \in DOMAIN currentPhoto |-> Merge(currentPhoto[k], updates)]
            /\ sessionPhotos' = UpdateEach(sessionPhotos,
                                   [k \in DOMAIN currentPhoto |-> currentPhoto[k].id], updates)
       ELSE UNCHANGED <<currentPhoto, sessionPhotos>>
    /\ UNCHANGED <<editorVars, captureVars, panelVars, storeVars, saveVars, lastExport,
                   viewMode, photosVars, countdownVars>>

MaxWiredStickers == 2   \* stickers added in the wired editing view

\* HomePage.handleAddSticker with a sticker not yet in the list
handleAddSticker(sticker) ==
    /\ Len(stickers) < MaxWiredStickers
    /\ \A k \in DOMAIN stickers : stickers[k].id # sticker.id
    /\ stickers' = HomeAddSticker(stickers, sticker)
    /\ UNCHANGED <<outsidePanel, lastAdded, clock>>

\* the editing view of HomePage: photos captured, the three-photo strip
\* selected, no stickers yet
InitWired ==
    /\ photo = [isArray |-> TRUE, list |-> PhotoList(1, 1)]
    /\ selectedLayout \in { l \in FRAME_LAYOUTS : l.id = "layout-1" }
    /\ stickers = << >>
    /\ appliedFilters = NoFilters
    /\ stripColor = "#ffffff"
    /\ clock = 0
    /\ RenderIdle
    /\ IPIdle
    /\ CaptureIdle
    /\ PanelIdle
    /\ StoreIdle
    /\ SaveIdle
    /\ EditIdle
    /\ PhotosIdle
    /\ CountdownIdle
    /\ currentPhoto \in CapturedInputs
    /\ sessionPhotos = currentPhoto
    /\ lastExport = NoExport
    /\ viewMode = "editing"

NextWired ==
    \/ \E id \in StickerIds : handleAddSticker(Sticker(id))
    \/ \E e \in EventElements : ~isDragging /\ Wired(handleStickerClick(ElementAt(e)))
    \/ \E key \in Keys : Wired(handleKeyDown(key))
    \/ \E e \in EventElements, offset \in PointerOffsets :
          Wired(handleMouseDown(ElementAt(e), offset))
    \/ \E e \in EventElements, offset \in PointerOffsets :
          Wired(handleMouseMove(ElementAt(e), offset))
    \/ EventElements # {} /\ Wired(handleMouseUp)

SpecWired == InitWired /\ [][NextWired]_vars

\* C23: with PhotoCanvas wired as in HomePage and stickers added through
\* handleAddSticker, a nudge, drag or delete of the selected sticker makes
\* the list handed to onPhotoUpdate the sticker list that PhotoCanvas
\* renders and exports from then on.
EditsReachTheRender ==
    [][lastUpdate' # lastUpdate => stickers' = lastUpdate'.stickers]_vars

----------------------------------------------------------------------------
(* usePhotos: the photo list and its copy in IndexedDB (idb-keyval) *)

MaxPending == 2   \* IndexedDB requests in flight at once

\* what an earlier visit left under the storage key
StoredBefore == { NoStored, [present |-> TRUE, list |-> << CapturedPhoto(1) >>] }

\* the photos handed to addPhoto
NewPhotos == { CapturedPhoto(k) : k \in 2..3 }

\* the changes handed to updatePhoto
PhotoUpdates == { [isDownloaded |-> TRUE], [isShared |-> TRUE] }

\* a get, set or del of idb-keyval on the storage key
Request(op, value) == [op |-> op, value |-> value]

Ids(list) == { list[k].id : k \in DOMAIN list }

\* the save effect, run after the render that follows a change of `photos`
\* (sessionId is set): a non-empty list is written under the key
SaveEffect(list, queue) ==
    IF Len(list) > 0 THEN Append(queue, Request("set", list)) ELSE queue

\* setPhotos(list), the render and its effects
SetPhotos(list, queue) ==
    /\ sessionPhotos' = list
    /\ idbQueue' = SaveEffect(list, queue)

addPhoto(newPhoto) ==
    /\ newPhoto.id \notin addedIds
    /\ Len(idbQueue) < MaxPending
    /\ SetPhotos(Append(sessionPhotos, newPhoto), idbQueue)
    /\ addedIds' = addedIds \cup { newPhoto.id }
    /\ UNCHANGED <<idbStored, loadDone, removedIds>>
    /\ UNCHANGED outsidePhotos

UpdatePhoto(photoId, updates) ==
    /\ Len(idbQueue) < MaxPending
    /\ SetPhotos(updatePhoto(sessionPhotos, photoId, updates), idbQueue)
    /\ UNCHANGED <<idbStored, loadDone, addedIds, removedIds>>
    /\ UNCHANGED outsidePhotos

deletePhoto(photoId) ==
    /\ Len(idbQueue) < MaxPending
    /\ SetPhotos(SelectSeq(sessionPhotos, LAMBDA p : p.id # photoId), idbQueue)
    /\ removedIds' = removedIds \cup { photoId }
    /\ UNCHANGED <<idbStored, loadDone, addedIds>>
    /\ UNCHANGED outsidePhotos

clearSession ==
    /\ Len(idbQueue) < MaxPending
    /\ SetPhotos(<< >>, Append(idbQueue, Request("del", << >>)))
    /\ removedIds' = removedIds \cup Ids(sessionPhotos)
    /\ UNCHANGED <<idbStored, loadDone, addedIds>>
    /\ UNCHANGED outsidePhotos

\* the oldest request completes; the get of the load effect then runs
\* .then(savedPhotos => { if (savedPhotos) setPhotos(savedPhotos) })
IdbComplete ==
    /\ idbQueue # << >>
    /\ LET request == Head(idbQueue) IN
       CASE request.op = "get" ->
               /\ loadDone' = TRUE
               /\ IF idbStored.present
                  THEN SetPhotos(idbStored.list, Tail(idbQueue))
                  ELSE /\ idbQueue' = Tail(idbQueue)
                       /\ UNCHANGED sessionPhotos
               /\ UNCHANGED idbStored
         [] request.op = "set" ->
               /\ idbStored' = [present |-> TRUE, list |-> request.value]
               /\ idbQueue' = Tail(idbQueue)
               /\ UNCHANGED <<sessionPhotos, loadDone>>
         [] OTHER ->
               /\ idbStored' = NoStored
               /\ idbQueue' = Tail(idbQueue)
               /\ UNCHANGED <<sessionPhotos, loadDone>>
    /\ UNCHANGED <<addedIds, removedIds>>
    /\ UNCHANGED outsidePhotos

\* usePhotos mounted with a session id: the list is empty, the load effect
\* has issued its get, the save effect found nothing to write
InitPhotos ==
    /\ EditorIdle
    /\ CaptureIdle
    /\ PanelIdle
    /\ StoreIdle
    /\ SaveIdle
    /\ EditIdle
    /\ HomeIdle
    /\ CountdownIdle
    /\ idbStored \in StoredBefore
    /\ idbQueue = << Request("get", << >>) >>
    /\ loadDone = FALSE
    /\ addedIds = {}
    /\ removedIds = {}

NextPhotos ==
    \/ \E newPhoto \in NewPhotos : addPhoto(newPhoto)
    \/ \E photoId \in Ids(sessionPhotos), updates \in PhotoUpdates :
          UpdatePhoto(photoId, updates)
    \/ \E photoId \in Ids(sessionPhotos) : deletePhoto(photoId)
    \/ clearSession
    \/ IdbComplete

SpecPhotos == InitPhotos /\ [][NextPhotos]_vars

\* C24: once the load of the saved photos has completed, the list contains
\* every photo that was added with addPhoto (and not removed since),
\* whatever the interleaving of the addPhoto calls with the load.
AddedPhotosAreKept ==
    loadDone => (addedIds \ removedIds) \subseteq Ids(sessionPhotos)

\* C25: when no request is in flight any more, what is stored under the
\* session's key is the in-memory list, so that a reload restores exactly
\* the current photos and a deleted photo does not reappear.
PersistedEqualsMemory ==
    (loadDone /\ idbQueue = << >>) =>
        IF idbStored.present THEN idbStored.list = sessionPhotos
        ELSE sessionPhotos = << >>

----------------------------------------------------------------------------
(* PhotoCanvas: Save clicks while the composition is being edited *)

MaxSaves == 2   \* Save clicks in one run

\* the handler `k` still running, without it
Returned(flight, k) == SubSeq(flight, 1, k - 1) \o SubSeq(flight, k + 1, Len(flight))

\* the button is enabled: setSaveStatus("Saving..."), setSaveDisabled(true),
\* then the render is awaited
SaveClicked ==
    /\ ~saveDisabled
    /\ Len(galleryPhotos) + Len(saveFlight) < MaxSaves
    /\ saveStatus' = StatusLine("Saving...", "")
    /\ saveDisabled' = TRUE
    /\ saveFlight' = Append(saveFlight, "drawing")
    /\ UNCHANGED <<savePc, saveRequests, saveOutcome, galleryPhotos>>
    /\ UNCHANGED outsideSave

\* drawStripToCanvas has returned to handler `k`: the strip photo is posted
SavePosted(k) ==
    /\ saveFlight[k] = "drawing"
    /\ saveFlight' = [saveFlight EXCEPT ![k] = "posting"]
    /\ UNCHANGED <<savePc, saveStatus, saveDisabled, saveRequests, saveOutcome,
                   galleryPhotos>>
    /\ UNCHANGED outsideSave

\* the response to the request of handler `k` arrives
SaveAnswered(k, res) ==
    /\ saveFlight[k] = "posting"
    /\ IF res.ok
       THEN /\ saveStatus' = StatusLine("Saved to gallery!", "")
            /\ galleryPhotos' = Append(galleryPhotos, StripPhoto)
            /\ UNCHANGED saveDisabled
       ELSE /\ saveStatus' = StatusLine("Failed to save: ", FailureDetail(res))
            /\ saveDisabled' = FALSE
            /\ UNCHANGED galleryPhotos
    /\ saveFlight' = Returned(saveFlight, k)
    /\ UNCHANGED <<savePc, saveRequests, saveOutcome>>
    /\ UNCHANGED outsideSave

\* the fetch of handler `k` rejects: the handler ends there
SaveRejected(k) ==
    /\ saveFlight[k] = "posting"
    /\ saveFlight' = Returned(saveFlight, k)
    /\ UNCHANGED <<savePc, saveStatus, saveDisabled, saveRequests, saveOutcome,
                   galleryPhotos>>
    /\ UNCHANGED outsideSave

\* the parent passes other filters: the effect on [primaryPhoto,
\* appliedFilters, stickers, selectedFrame, selectedLayout] runs
\* setSaveDisabled(false)
EditComposition(filters) ==
    /\ filters # appliedFilters
    /\ appliedFilters' = filters
    /\ saveDisabled' = FALSE
    /\ UNCHANGED <<savePc, saveStatus, saveRequests, saveOutcome, galleryPhotos, saveFlight>>
    /\ UNCHANGED <<propVars, stripColor, clock, renderVars, lastFile, ipVars,
                   captureVars, panelVars, storeVars, editVars, homeVars, photosVars, countdownVars>>

NextSaves ==
    \/ SaveClicked
    \/ \E k \in DOMAIN saveFlight : SavePosted(k)
    \/ \E k \in DOMAIN saveFlight, res \in Responses : SaveAnswered(k, res)
    \/ \E k \in DOMAIN saveFlight : SaveRejected(k)
    \/ \E filters \in FilterInputs : EditComposition(filters)

SpecSaves == InitSave /\ [][NextSaves]_vars

\* C26: at most one save request for the strip is in flight at any time:
\* the Save button stays disabled from the click until the request has
\* failed or, after the save has finished, the composition is edited.
OneSaveInFlight ==
    /\ Len(saveFlight) <= 1
    /\ saveFlight # << >> => saveDisabled

----------------------------------------------------------------------------
(* ImageProcessor: every operation, with image loads that may fail *)

\* everything outside ImageProcessor
outsideIP == <<appVars, propVars, appliedFilters, stripColor, clock, renderVars, lastFile>>

\* the operations that load the one image given and, for addFrame, the frame
\* image after it
SingleImageOps == { "applyFilters", "resizeImage", "addFrame" }

\* applyFilters, resizeImage or addFrame is called: the image starts loading
IPLoadImage(op) ==
    /\ ipResult # "pending"
    /\ ipOp' = op
    /\ ipInput' = << >>
    /\ ipPending' = { 0 }
    /\ ipLoaded' = 0
    /\ ipDrawn' = << >>
    /\ ipResult' = "pending"
    /\ UNCHANGED outsideIP

\* img.onload of applyFilters and resizeImage: draw and resolve; img.onload
\* of addFrame: the frame image starts loading
IPImageLoaded ==
    /\ ipOp \in SingleImageOps
    /\ 0 \in ipPending
    /\ IF ipOp = "addFrame"
       THEN /\ ipPending' = { 1 }
            /\ UNCHANGED <<ipDrawn, ipResult>>
       ELSE /\ ipPending' = {}
            /\ ipDrawn' = << [kind |-> "image"] >>
            /\ ipResult' = "resolved"
    /\ UNCHANGED <<ipOp, ipInput, ipLoaded>>
    /\ UNCHANGED outsideIP

\* frameImg.onload of addFrame: draw the frame, the photo on it, resolve
IPFrameLoaded ==
    /\ ipOp = "addFrame"
    /\ 1 \in ipPending
    /\ ipPending' = {}
    /\ ipDrawn' = << [kind |-> "frame"], [kind |-> "image"] >>
    /\ ipResult' = "resolved"
    /\ UNCHANGED <<ipOp, ipInput, ipLoaded>>
    /\ UNCHANGED outsideIP

\* an image fails to load: no operation sets onerror, so nothing runs
IPLoadFails(k) ==
    /\ k \in ipPending
    /\ ipPending' = ipPending \ { k }
    /\ UNCHANGED <<ipOp, ipInput, ipLoaded, ipDrawn, ipResult>>
    /\ UNCHANGED outsideIP

\* a load event of the running operation
IPLoadEvent ==
    \/ IPBaseImageLoaded
    \/ \E k \in 1..MaxStickers : IPStickerLoaded(k)
    \/ \E k \in 1..MaxPhotos : IPPhotoLoaded(k)
    \/ IPImageLoaded
    \/ IPFrameLoaded
    \/ \E k \in ipPending : IPLoadFails(k)

NextIPLoads ==
    \/ \E list \in StickerInputs : IPAddStickers(list)
    \/ \E photos \in SrcInputs : IPCreatePhotoStrip(photos)
    \/ \E op \in SingleImageOps : IPLoadImage(op)
    \/ IPLoadEvent

\* every image load that was started ends, with onload or with an error
SpecIPLoads == InitIP /\ [][NextIPLoads]_vars /\ WF_vars(IPLoadEvent)

\* C28: every ImageProcessor operation eventually resolves its promise, for
\* every input, including an image that fails to load and an empty sticker
\* or photo list.
EveryOperationResolves == (ipResult = "pending") ~> (ipResult = "resolved")

----------------------------------------------------------------------------
(* useCountdown: start, stop, reset and the interval callback *)

MaxDuration == 3   \* longest countdown, seconds
MaxStarts == 3     \* start() calls
MaxOverrun == 2    \* ticks followed below zero
MaxCompletions == 3 \* onComplete calls followed

outsideCountdown == <<editorVars, captureVars, panelVars, storeVars, saveVars, editVars,
                      homeVars, photosVars>>

\* start(): the interval set is stored in intervalRef; an interval already
\* running is not cleared
start ==
    /\ cdStarts < MaxStarts
    /\ isActive' = TRUE
    /\ remaining' = duration
    /\ intervalRef' = cdStarts + 1
    /\ cdIntervals' = cdIntervals \cup { cdStarts + 1 }
    /\ cdStarts' = cdStarts + 1
    /\ cdStopped' = FALSE
    /\ UNCHANGED <<duration, cdCompletions>>
    /\ UNCHANGED outsideCountdown

\* clearInterval(intervalRef.current); intervalRef.current = null
ClearCurrent(intervals, ref) == intervals \ { ref }

\* stop()
stop ==
    /\ isActive' = FALSE
    /\ cdIntervals' = ClearCurrent(cdIntervals, intervalRef)
    /\ intervalRef' = NoInterval
    /\ cdStopped' = TRUE
    /\ UNCHANGED <<duration, remaining, cdStarts, cdCompletions>>
    /\ UNCHANGED outsideCountdown

\* reset(): stop() and setRemaining(duration)
reset ==
    /\ isActive' = FALSE
    /\ cdIntervals' = ClearCurrent(cdIntervals, intervalRef)
    /\ intervalRef' = NoInterval
    /\ cdStopped' = TRUE
    /\ remaining' = duration
    /\ UNCHANGED <<duration, cdStarts, cdCompletions>>
    /\ UNCHANGED outsideCountdown

\* the callback of interval `id` fires: remaining is decremented; at zero or
\* below the interval in intervalRef is cleared and onComplete is called
Tick(id) ==
    /\ id \in cdIntervals
    /\ remaining > -MaxOverrun
    /\ cdCompletions < MaxCompletions
    /\ LET newRemaining == remaining - 1 IN
       /\ remaining' = newRemaining
       /\ IF newRemaining <= 0
          THEN /\ isActive' = FALSE
               /\ cdIntervals' = ClearCurrent(cdIntervals, intervalRef)
               /\ intervalRef' = NoInterval
               /\ cdCompletions' = cdCompletions + 1
          ELSE UNCHANGED <<isActive, cdIntervals, intervalRef, cdCompletions>>
    /\ UNCHANGED <<duration, cdStarts, cdStopped>>
    /\ UNCHANGED outsideCountdown

\* useCountdown mounted with a duration of at least one second
InitCountdown ==
    /\ EditorIdle
    /\ CaptureIdle
    /\ PanelIdle
    /\ StoreIdle
    /\ SaveIdle
    /\ EditIdle
    /\ HomeIdle
    /\ PhotosIdle
    /\ duration \in 1..MaxDuration
    /\ remaining = duration
    /\ isActive = FALSE
    /\ intervalRef = NoInterval
    /\ cdIntervals = {}
    /\ cdStarts = 0
    /\ cdCompletions = 0
    /\ cdStopped = FALSE

NextCountdown ==
    \/ start
    \/ stop
    \/ reset
    \/ \E id \in 1..MaxStarts : Tick(id)

SpecCountdown == InitCountdown /\ [][NextCountdown]_vars

\* C29: onComplete is called at most once per started countdown and not
\* after stop() until the next start(), and remaining never goes below zero,
\* also when start() is called while a countdown is active
CountdownCompletesOnce ==
    /\ [](remaining >= 0)
    /\ [](cdCompletions <= cdStarts)
    /\ [][cdCompletions' # cdCompletions => ~cdStopped]_vars

----------------------------------------------------------------------------
(* HomePage: the view shown after layout selection, capture, retake, back
   and the navigation buttons *)

ViewModes == { "frame-selection", "camera", "editing", "gallery" }

\* everything the view handlers leave alone
outsideView == <<photo, stripColor, clock, renderVars, lastFile, ipVars, captureVars,
                 panelVars, storeVars, saveVars, editVars, photosVars, countdownVars>>

\* viewMode === 'frame-selection'
SelectionRendered == viewMode = "frame-selection"

\* viewMode === 'camera' && selectedLayout
CameraRendered == viewMode = "camera" /\ selectedLayout # NoLayout

\* viewMode === 'editing' && currentPhoto && selectedLayout
EditingRendered ==
    viewMode = "editing" /\ currentPhoto # << >> /\ selectedLayout # NoLayout

\* the photos CameraPreview hands over for a layout: at least one, at most
\* the layout's photo count
CapturedFor(layout) ==
    { [j \in 1..n |-> CapturedPhoto(j)] : n \in 1..layout.photoCount }

\* a layout card of FrameSelector is clicked
handleLayoutSelect(layout) ==
    /\ SelectionRendered
    /\ selectedLayout' = layout
    /\ viewMode' = "camera"
    /\ UNCHANGED <<currentPhoto, sessionPhotos, lastExport, appliedFilters, stickers>>
    /\ UNCHANGED outsideView

\* the Back button of CameraPreview or PhotoCanvas
handleBack ==
    /\ CameraRendered \/ EditingRendered
    /\ viewMode' = "frame-selection"
    /\ UNCHANGED <<selectedLayout, currentPhoto, sessionPhotos, lastExport,
                   appliedFilters, stickers>>
    /\ UNCHANGED outsideView

\* disabled={!selectedLayout}
CameraDisabled == selectedLayout = NoLayout

EditAlwaysEnabled == FALSE

\* disabled={!currentPhoto}
EditDisabled == currentPhoto = << >>

\* a navigation button that is not disabled is clicked
NavButton(mode) ==
    /\ mode = "camera" => ~CameraDisabled
    /\ mode = "editing" => ~EditDisabled
    /\ viewMode' = mode
    /\ UNCHANGED <<selectedLayout, currentPhoto, sessionPhotos, lastExport,
                   appliedFilters, stickers>>
    /\ UNCHANGED outsideView

InitView == InitHome

NextView ==
    \/ \E layout \in FRAME_LAYOUTS : handleLayoutSelect(layout)
    \/ \E photos \in CapturedFor(selectedLayout) :
          CameraRendered /\ handlePhotoCaptured(photos)
    \/ EditingRendered /\ handleRetakePhoto
    \/ \E via \in { "download", "share" } : EditingRendered /\ handleExport(via)
    \/ handleBack
    \/ \E mode \in ViewModes : NavButton(mode)

SpecView == InitView /\ [][NextView]_vars

\* C30: the editing view is active only with currentPhoto and selectedLayout
\* both set, and the camera view only with a layout selected
ViewsHaveTheirState ==
    /\ viewMode = "editing" => currentPhoto # << >> /\ selectedLayout # NoLayout
    /\ viewMode = "camera" => selectedLayout # NoLayout

\* the editing view entered through the Edit button after four photos were
\* captured and the single-photo layout was selected afterwards
ViewsHaveTheirStateWitness ==
    /\ viewMode = "editing"
    /\ Len(currentPhoto) = 4
    /\ selectedLayout.photoCount = 1

====
